---- MODULE Spec2Model ----
(***************************************************************************)
(* Model of the desktop-control agent of src/agent.py: the permission-     *)
(* gated TaskExecutor, the loop guard, the response parser and the step    *)
(* loop of AgentMode.execute_task, together with the owner-side calls      *)
(* (set_model, set_permission(s), cancel_operation) that run on other      *)
(* request threads of the web application.                                 *)
(*                                                                         *)
(* Response text is a sequence of symbols.  A symbol is a pair <<k, v>> of *)
(* strings: <<"ch", c>> is a piece of literal text (a brace, a quote, a    *)
(* fence marker, prose, white space), <<"member", ...>>-like pairs such as *)
(* <<"action", "wait">> stand for the text of one well-formed JSON member  *)
(* ("action": "wait",) which holds no brace outside its balanced quotes,   *)
(* and <<"key", k>> is a member name whose value is missing.  KEYC is the  *)
(* name and colon of a member that is not a field of the plan; its value   *)
(* follows symbol by symbol (a string literal or an object).               *)
(***************************************************************************)
EXTENDS Integers, Sequences, FiniteSets, TLC

-----------------------------------------------------------------------------
(* Program constants *)

max_steps == 15
keep_last == 10
context_window == 5
warn_threshold == 3
abort_threshold == 5

(* Bounds of the model *)

MaxPattern == 2
MaxSigs == 7
MaxCalls == 2
MaxStr == 2
MaxLayouts == 2
MaxLines == 3

-----------------------------------------------------------------------------
(* Text symbols *)

LB == <<"ch", "{">>
RB == <<"ch", "}">>
QUOTE == <<"ch", "quote">>
BACKSLASH == <<"ch", "backslash">>
WS == <<"ch", "space">>
PROSE == <<"ch", "prose">>
FENCE_OPEN == <<"ch", "fence_json">>
FENCE_CLOSE == <<"ch", "fence">>
KEYC == <<"ch", "note:">>

ABSENT == "<absent>"

Min(a, b) == IF a < b THEN a ELSE b

Max(a, b) == IF a > b THEN a ELSE b

(* str.strip(): leading and trailing white space removed *)
RECURSIVE StripLeft(_)
StripLeft(t) ==
    IF t # <<>> /\ Head(t) = WS THEN StripLeft(Tail(t)) ELSE t

RECURSIVE StripRight(_)
StripRight(t) ==
    IF t # <<>> /\ t[Len(t)] = WS THEN StripRight(SubSeq(t, 1, Len(t) - 1)) ELSE t

Strip(t) == StripRight(StripLeft(t))

(* str.lower() on the action tags and the query words that occur *)
Lower(s) ==
    CASE s = "COMPLETE" -> "complete"
      [] s = "Wait" -> "wait"
      [] s = "Mouse_Click" -> "mouse_click"
      [] s = "Start" -> "start"
      [] s = "Windows" -> "windows"
      [] s = "Edge" -> "edge"
      [] s = "Browser" -> "browser"
      [] s = "File" -> "file"
      [] s = "Explorer" -> "explorer"
      [] s = "Search" -> "search"
      [] s = "Bar" -> "bar"
      [] OTHER -> s

-----------------------------------------------------------------------------
(* Response parser: candidate extraction (execute_task, lines 1289-1342) *)

(* first index >= p that holds no white space, Len(t)+1 when there is none *)
RECURSIVE SkipWs(_, _)
SkipWs(t, p) ==
    IF p <= Len(t) /\ t[p] = WS THEN SkipWs(t, p + 1) ELSE p

(* the closing fence of the pattern also matches the head of a json fence *)
IsFenceEnd(s) == s = FENCE_CLOSE \/ s = FENCE_OPEN

(* re.search for a json fence, white space, group 1 = a brace, the fewest  *)
(* characters and a brace, white space, a fence (DOTALL): FencedMatch is   *)
(* the pair <<j, k>> of the first and last index of group 1, <<0, 0>> for  *)
(* no match                                                                 *)
(* the braces after position j that can end group 1 *)
FenceCloses(t, j) ==
    { k \in (j + 1)..Len(t) :
        /\ t[k] = RB
        /\ SkipWs(t, k + 1) <= Len(t)
        /\ IsFenceEnd(t[SkipWs(t, k + 1)]) }

(* the json fences at which the pattern matches *)
FenceOpens(t) ==
    { i \in 1..Len(t) :
        /\ t[i] = FENCE_OPEN
        /\ SkipWs(t, i + 1) <= Len(t)
        /\ t[SkipWs(t, i + 1)] = LB
        /\ FenceCloses(t, SkipWs(t, i + 1)) # {} }

Least(S) == CHOOSE a \in S : \A b \in S : a <= b

(* the leftmost match, and for it the shortest group 1 *)
FencedMatch(t) ==
    IF FenceOpens(t) = {} THEN <<0, 0>>
    ELSE <<SkipWs(t, Least(FenceOpens(t)) + 1),
           Least(FenceCloses(t, SkipWs(t, Least(FenceOpens(t)) + 1)))>>

(* str.find('{'): 0 stands for -1 *)
FindBrace(t) ==
    IF \E i \in 1..Len(t) : t[i] = LB
    THEN CHOOSE i \in 1..Len(t) : t[i] = LB /\ \A j \in 1..(i - 1) : t[j] # LB
    ELSE 0

(* the brace-depth walk: index of the closing brace, 0 when the depth never *)
(* returns to zero                                                          *)
RECURSIVE BraceWalk(_, _, _, _, _)
BraceWalk(t, i, brace_count, in_string, escape_next) ==
    IF i > Len(t) THEN 0
    ELSE IF escape_next THEN BraceWalk(t, i + 1, brace_count, in_string, FALSE)
    ELSE IF t[i] = BACKSLASH THEN BraceWalk(t, i + 1, brace_count, in_string, TRUE)
    ELSE IF t[i] = QUOTE /\ ~in_string THEN BraceWalk(t, i + 1, brace_count, TRUE, FALSE)
    ELSE IF t[i] = QUOTE /\ in_string THEN BraceWalk(t, i + 1, brace_count, FALSE, FALSE)
    ELSE IF t[i] = LB /\ ~in_string THEN BraceWalk(t, i + 1, brace_count + 1, in_string, FALSE)
    ELSE IF t[i] = RB /\ ~in_string THEN
        IF brace_count - 1 = 0 THEN i
        ELSE BraceWalk(t, i + 1, brace_count - 1, in_string, FALSE)
    ELSE BraceWalk(t, i + 1, brace_count, in_string, FALSE)

(* variant: without a fence the candidate runs to the last brace of the text *)
ExtractJson_to_last_brace(t) ==
    LET m == FencedMatch(t)
        json_start == FindBrace(t)
        closes == { i \in 1..Len(t) : t[i] = RB /\ i > json_start }
        json_end == IF json_start = 0 \/ closes = {} THEN 0
                    ELSE CHOOSE i \in closes : \A j \in closes : j <= i
    IN IF m # <<0, 0>> THEN [found |-> TRUE, text |-> SubSeq(t, m[1], m[2])]
       ELSE IF json_start # 0 /\ json_end # 0
            THEN [found |-> TRUE, text |-> SubSeq(t, json_start, json_end)]
            ELSE [found |-> FALSE, text |-> <<>>]

(* json_text of a response text: [found, text] *)
ExtractJson(t) ==
    LET m == FencedMatch(t)
        json_start == FindBrace(t)
        json_end == IF json_start = 0 THEN 0 ELSE BraceWalk(t, json_start, 0, FALSE, FALSE)
    IN IF m # <<0, 0>> THEN [found |-> TRUE, text |-> SubSeq(t, m[1], m[2])]
       ELSE IF json_start # 0 /\ json_end # 0
            THEN [found |-> TRUE, text |-> SubSeq(t, json_start, json_end)]
            ELSE [found |-> FALSE, text |-> <<>>]

-----------------------------------------------------------------------------
(* json.loads on the candidate, and the field defaults (lines 1344-1363) *)

MemberKeys == {"action", "reasoning", "observation", "parameters", "task_complete"}

IsMember(s) == s[1] \in MemberKeys

(* value of the last member named key, ABSENT when there is none *)
RECURSIVE MemberValue(_, _)
MemberValue(body, key) ==
    IF body = <<>> THEN ABSENT
    ELSE IF body[Len(body)][1] = key THEN body[Len(body)][2]
    ELSE MemberValue(SubSeq(body, 1, Len(body) - 1), key)

(* a string literal from the symbol after its opening quote: the index     *)
(* after its closing quote, 0 when it does not decode.  The escapes that   *)
(* occur are an escaped quote and an escaped backslash; a JSON member      *)
(* holds quotes of its own and cannot lie inside a string.                  *)
RECURSIVE ParseString(_, _)
ParseString(c, i) ==
    IF i > Len(c) THEN 0
    ELSE IF c[i][1] # "ch" THEN 0
    ELSE IF c[i] = QUOTE THEN i + 1
    ELSE IF c[i] = BACKSLASH
         THEN IF i + 1 <= Len(c) /\ c[i + 1] \in {QUOTE, BACKSLASH}
              THEN ParseString(c, i + 2)
              ELSE 0
    ELSE ParseString(c, i + 1)

(* the members of an object from index i on: the index after the closing   *)
(* brace (0 when the object does not decode) and the members of this       *)
(* object that carry a field of the plan                                   *)
RECURSIVE ParseMembers(_, _, _)
ParseMembers(c, i, acc) ==
    IF i > Len(c) THEN [next |-> 0, members |-> acc]
    ELSE IF c[i] = WS THEN ParseMembers(c, i + 1, acc)
    ELSE IF c[i] = RB THEN [next |-> i + 1, members |-> acc]
    ELSE IF IsMember(c[i]) THEN ParseMembers(c, i + 1, Append(acc, c[i]))
    ELSE IF c[i] = KEYC
         THEN LET j == SkipWs(c, i + 1)
              IN IF j > Len(c) THEN [next |-> 0, members |-> acc]
                 ELSE IF c[j] = QUOTE
                      THEN IF ParseString(c, j + 1) = 0
                           THEN [next |-> 0, members |-> acc]
                           ELSE ParseMembers(c, ParseString(c, j + 1), acc)
                 ELSE IF c[j] = LB
                      THEN IF ParseMembers(c, j + 1, <<>>).next = 0
                           THEN [next |-> 0, members |-> acc]
                           ELSE ParseMembers(c, ParseMembers(c, j + 1, <<>>).next, acc)
                 ELSE [next |-> 0, members |-> acc]
    ELSE [next |-> 0, members |-> acc]

(* json.loads: the candidate decodes iff it is one object; its members are *)
(* complete members of the plan, or a key followed by a string literal or  *)
(* by an object; white space between members is ignored                    *)
JsonLoads(c) ==
    LET r == IF Len(c) >= 2 /\ c[1] = LB
             THEN ParseMembers(c, 2, <<>>)
             ELSE [next |-> 0, members |-> <<>>]
        wellformed == r.next = Len(c) + 1
        body == r.members
    IN IF wellformed
       THEN [ok |-> TRUE,
             plan |-> [action |-> MemberValue(body, "action"),
                       reasoning |-> MemberValue(body, "reasoning"),
                       observation |-> MemberValue(body, "observation"),
                       parameters |-> MemberValue(body, "parameters"),
                       task_complete |-> MemberValue(body, "task_complete")]]
       ELSE [ok |-> FALSE, plan |-> [action |-> ABSENT, reasoning |-> ABSENT,
                                     observation |-> ABSENT, parameters |-> ABSENT,
                                     task_complete |-> ABSENT]]

(* values that are not of the expected JSON type start with "#" *)
NOT_A_STRING == "#42"
NOT_A_DICT == "#list"

(* the parameter objects of the replies, by name *)
NoParams ==
    [app |-> ABSENT, text |-> ABSENT, element_name |-> ABSENT, pos |-> ABSENT,
     keys |-> ABSENT]

Params(id) ==
    CASE id = "text:a" -> [NoParams EXCEPT !.text = "a"]
      [] id = "text:b" -> [NoParams EXCEPT !.text = "b"]
      [] id = "text:press_a" -> [NoParams EXCEPT !.text = "press_a"]
      [] id = "text:notepad" -> [NoParams EXCEPT !.text = "notepad"]
      [] id = "app:notepad" -> [NoParams EXCEPT !.app = "notepad"]
      [] id = "elem:start" -> [NoParams EXCEPT !.element_name = "start button"]
      [] id = "pos:1" -> [NoParams EXCEPT !.pos = "1"]
      [] id = "pos:2" -> [NoParams EXCEPT !.pos = "2"]
      [] id = "keys:ctrl+c" -> [NoParams EXCEPT !.keys = "ctrl+c"]
      [] OTHER -> NoParams

(* dict.get(key, default) on a parameter object *)
Get(p, v, default) == IF v = ABSENT THEN default ELSE v

(* the fields read without str.lower() on the tag *)
ExtractFields_case_sensitive(plan) ==
    [raises |-> plan.action = NOT_A_STRING,
     action_type |-> Get(plan, plan.action, ""),
     reasoning |-> Get(plan, plan.reasoning, ""),
     observation |-> Get(plan, plan.observation, ""),
     parameters |-> Get(plan, plan.parameters, "{}"),
     task_complete |-> Get(plan, plan.task_complete, "false") = "true"]

(* lines 1359-1363: an exception is raised when action is not a string *)
ExtractFields(plan) ==
    [raises |-> plan.action = NOT_A_STRING,
     action_type |-> Lower(Get(plan, plan.action, "")),
     reasoning |-> Get(plan, plan.reasoning, ""),
     observation |-> Get(plan, plan.observation, ""),
     parameters |-> Get(plan, plan.parameters, "{}"),
     task_complete |-> Get(plan, plan.task_complete, "false") = "true"]

-----------------------------------------------------------------------------
(* Loop guard (lines 1369-1389) *)

(* f"{action_type}_{parameters.get('app', parameters.get('text', ''))}" *)
CurrentAction(action_type, parameters) ==
    LET p == Params(parameters)
    IN action_type \o "_" \o Get(p, p.app, Get(p, p.text, ""))

NO_ACTION == "<None>"

(* variant: a changed signature starts the count at 1 *)
LoopGuard_counts_from_one(current_action, last_action, repeat_count) ==
    IF current_action = last_action
    THEN [last_action |-> last_action,
          repeat_count |-> repeat_count + 1,
          warn |-> repeat_count + 1 >= warn_threshold,
          abort |-> repeat_count + 1 >= warn_threshold /\ repeat_count + 1 >= abort_threshold]
    ELSE [last_action |-> current_action,
          repeat_count |-> 1,
          warn |-> FALSE,
          abort |-> FALSE]

(* one evaluation of the guard: the new (last_action, repeat_count) and the *)
(* warning and abort signals                                                *)
LoopGuard(current_action, last_action, repeat_count) ==
    IF current_action = last_action
    THEN [last_action |-> last_action,
          repeat_count |-> repeat_count + 1,
          warn |-> repeat_count + 1 >= warn_threshold,
          abort |-> repeat_count + 1 >= warn_threshold /\ repeat_count + 1 >= abort_threshold]
    ELSE [last_action |-> current_action,
          repeat_count |-> 0,
          warn |-> FALSE,
          abort |-> FALSE]

-----------------------------------------------------------------------------
(* TaskExecutor (lines 479-757) *)

Capabilities == {"mouse_click", "keyboard_type", "file_operations", "system_commands"}

(* TaskExecutor.__init__: every capability starts denied *)
InitialPermissions == [c \in Capabilities |-> FALSE]

Primitives ==
    {"mouse_move", "mouse_click", "double_click", "right_click", "scroll",
     "keyboard_type", "key_press", "hotkey", "escape", "alt_tab", "ctrl_n",
     "select_all", "save_file", "open_application"}

(* the capability each execute_* method asks for *)
RequiredCapability(prim) ==
    CASE prim \in {"mouse_move", "mouse_click", "double_click", "right_click", "scroll"}
           -> "mouse_click"
      [] prim \in {"keyboard_type", "key_press", "hotkey", "escape", "alt_tab",
                   "ctrl_n", "select_all"}
           -> "keyboard_type"
      [] prim = "save_file" -> "file_operations"
      [] prim = "open_application" -> "system_commands"

(* self.permissions.get(action_type, False) *)
request_permission(perms, action_type) ==
    IF action_type \in DOMAIN perms THEN perms[action_type] ELSE FALSE

(* self.permissions[action_type] = granted *)
set_permission(perms, action_type, granted) ==
    [c \in DOMAIN perms \cup {action_type} |->
        IF c = action_type THEN granted ELSE perms[c]]

(* A text of 51 characters and its first 50; every other text that occurs  *)
(* is shorter than 50 characters                                            *)
LONG_TEXT == "<51 characters>"

FIRST_50 == "<the first 50 of 51 characters>"

(* text[:50] *)
First50(text) == IF text = LONG_TEXT THEN FIRST_50 ELSE text

(* variant: the whole text is logged *)
LogDetail_whole_text(prim, detail) == detail

(* what the entry of the action log holds of the argument: the first 50    *)
(* characters of typed text (line 528), the argument itself otherwise      *)
LogDetail(prim, detail) == IF prim = "keyboard_type" THEN First50(detail) ELSE detail

(* variant: the OS call is made before the permission is looked at *)
Execute_acts_before_check(prim, detail, raises, perms, history) ==
    IF raises
    THEN [success |-> FALSE, error |-> "exception",
          action |-> <<>>, history |-> history, os |-> 1]
    ELSE IF ~request_permission(perms, RequiredCapability(prim))
    THEN [success |-> FALSE,
          error |-> "Permission denied: " \o RequiredCapability(prim),
          action |-> <<>>, history |-> history, os |-> 1]
    ELSE [success |-> TRUE, error |-> "",
          action |-> <<prim, LogDetail(prim, detail)>>,
          history |-> Append(history, <<prim, LogDetail(prim, detail)>>), os |-> 1]

(* one execute_* call: the result, the action log afterwards and the number *)
(* of OS calls made.  raises: the OS call throws.                           *)
Execute(prim, detail, raises, perms, history) ==
    IF ~request_permission(perms, RequiredCapability(prim))
    THEN [success |-> FALSE,
          error |-> "Permission denied: " \o RequiredCapability(prim),
          action |-> <<>>, history |-> history, os |-> 0]
    ELSE IF raises
    THEN [success |-> FALSE, error |-> "exception",
          action |-> <<>>, history |-> history, os |-> 1]
    ELSE [success |-> TRUE, error |-> "",
          action |-> <<prim, LogDetail(prim, detail)>>,
          history |-> Append(history, <<prim, LogDetail(prim, detail)>>), os |-> 1]

-----------------------------------------------------------------------------
(* The inference service's replies *)

Obj(members) == <<LB>> \o members \o <<RB>>

Fenced(obj) == <<PROSE, FENCE_OPEN>> \o obj \o <<FENCE_CLOSE>>

Bare(obj) == <<PROSE>> \o obj

(* A situation is what the environment does in one step: the reply of the  *)
(* service (wrap, members), whether the OS call of the step throws and     *)
(* whether the detector finds the element.                                  *)
Sit(wrap, members, raises, hit) ==
    [wrap |-> wrap, members |-> members, raises |-> raises, hit |-> hit]

(* action tags that call one executor method and log only on failure *)
SimpleTags ==
    {"key_press", "mouse_move", "double_click", "right_click", "escape",
     "ctrl_n", "select_all", "save_file", "alt_tab", "scroll"}

ExecutorTags == SimpleTags \cup {"mouse_click", "keyboard_type", "hotkey", "open_app"}

(* the parameters a well-formed plan gives with an executor tag *)
TagParams(tag) ==
    CASE tag = "keyboard_type" -> "text:a"
      [] tag = "open_app" -> "app:notepad"
      [] tag = "hotkey" -> "keys:ctrl+c"
      [] tag \in {"mouse_click", "mouse_move", "double_click", "right_click"} -> "pos:1"
      [] OTHER -> "{}"

(* situations after which the loop goes on to the next step *)
StepNames ==
    {"wait", "click", "click_fails", "type_a", "detect_hit", "detect_miss",
     "unknown"}

(* replies that end the task *)
TerminalNames ==
    {"complete", "malformed", "no_json", "empty", "bad_action", "bad_params"}

Situation(name) ==
    CASE name = "wait" ->
           Sit("fenced", <<<<"action", "wait">>, <<"reasoning", "r">>>>, FALSE, FALSE)
      [] name = "click" ->
           Sit("bare", <<<<"observation", "o">>, <<"action", "mouse_click">>,
                         <<"parameters", "pos:1">>>>, FALSE, FALSE)
      [] name = "click_fails" ->
           Sit("bare", <<<<"action", "mouse_click">>, <<"parameters", "pos:2">>>>,
               TRUE, FALSE)
      [] name = "type_a" ->
           Sit("fenced", <<<<"action", "keyboard_type">>, <<"parameters", "text:a">>>>,
               FALSE, FALSE)
      [] name = "detect_hit" ->
           Sit("fenced", <<<<"action", "detect_ui_element">>,
                           <<"parameters", "elem:start">>>>, FALSE, TRUE)
      [] name = "detect_miss" ->
           Sit("fenced", <<<<"action", "detect_ui_element">>,
                           <<"parameters", "elem:start">>>>, FALSE, FALSE)
      [] name = "unknown" ->
           Sit("bare", <<<<"action", "fly">>>>, FALSE, FALSE)
      [] name = "complete" ->
           Sit("fenced", <<<<"action", "complete">>>>, FALSE, FALSE)
      [] name = "complete_upper" ->
           Sit("bare", <<<<"action", "COMPLETE">>>>, FALSE, FALSE)
      [] name = "malformed" ->
           Sit("bare", <<<<"key", "action">>>>, FALSE, FALSE)
      [] name = "no_json" ->
           Sit("raw", <<PROSE, RB>>, FALSE, FALSE)
      [] name = "empty" ->
           Sit("raw", <<WS>>, FALSE, FALSE)
      [] name = "bad_action" ->
           Sit("bare", <<<<"action", NOT_A_STRING>>>>, FALSE, FALSE)
      [] name = "bad_params" ->
           Sit("bare", <<<<"observation", "o">>, <<"action", "complete">>,
                         <<"parameters", NOT_A_DICT>>>>, FALSE, FALSE)
      [] name \in ExecutorTags ->
           Sit("bare", <<<<"action", name>>, <<"parameters", TagParams(name)>>>>,
               FALSE, FALSE)
      [] name = "no_tag" ->
           Sit("bare", <<<<"reasoning", "r">>>>, FALSE, FALSE)
      [] name = "empty_tag" ->
           Sit("bare", <<<<"action", "">>, <<"parameters", "{}">>>>, FALSE, FALSE)
      [] name = "hotkey_no_keys" ->
           Sit("bare", <<<<"action", "hotkey">>, <<"parameters", "{}">>>>, FALSE, FALSE)
      [] name = "open_app_no_app" ->
           Sit("bare", <<<<"action", "open_app">>, <<"parameters", "{}">>>>, FALSE, FALSE)
      [] name = "detect_no_name" ->
           Sit("fenced", <<<<"action", "detect_ui_element">>, <<"parameters", "{}">>>>,
               FALSE, TRUE)

(* the same reply with "task_complete": true added to the object *)
WithTaskComplete(sit) ==
    [sit EXCEPT !.members = sit.members \o <<<<"task_complete", "true">>>>]

(* the full text of the reply *)
Text(sit) ==
    CASE sit.wrap = "fenced" -> Fenced(Obj(sit.members))
      [] sit.wrap = "bare" -> Bare(Obj(sit.members))
      [] sit.wrap = "raw" -> sit.members

(* a streamed reply: newline-delimited chunks, the last one with done=true *)
Chunk(response, thinking, done) ==
    [response |-> response, thinking |-> thinking, done |-> done]

(* line k (from 0) of the stream that carries the reply: the text, then the *)
(* chunk that ends the stream                                               *)
StreamLineOf(sit, k) ==
    IF k = 0 THEN Chunk(Text(sit), <<>>, FALSE) ELSE Chunk(<<>>, <<>>, TRUE)

(* lines 1230-1236: the text a chunk contributes *)
Token(chunk) ==
    IF chunk.response # <<>> THEN chunk.response
    ELSE IF chunk.thinking # <<>> THEN chunk.thinking
    ELSE <<>>

(* A line of the stream: a well-formed chunk, a line that json.loads       *)
(* rejects, or an empty line                                                *)
Line(kind, chunk) == [kind |-> kind, chunk |-> chunk]

ChunkLine(chunk) == Line("chunk", chunk)

InvalidLine == Line("invalid", Chunk(<<>>, <<>>, FALSE))

EmptyLine == Line("empty", Chunk(<<>>, <<>>, FALSE))

(* variant: a line that json.loads rejects ends the stream *)
LineStep_invalid_ends(text, line) ==
    CASE line.kind = "empty" -> [text |-> text, stop |-> FALSE]
      [] line.kind = "invalid" -> [text |-> text, stop |-> TRUE]
      [] line.kind = "chunk" ->
           [text |-> text \o Token(line.chunk), stop |-> line.chunk.done]

(* lines 1217-1260: the body of the loop for one line, the cancel flag not *)
(* set: the text afterwards and whether the loop is left                   *)
LineStep(text, line) ==
    CASE line.kind = "empty" -> [text |-> text, stop |-> FALSE]
      [] line.kind = "invalid" -> [text |-> text, stop |-> FALSE]
      [] line.kind = "chunk" ->
           [text |-> text \o Token(line.chunk), stop |-> line.chunk.done]

NoStream == [read |-> 0, text |-> <<>>, done |-> FALSE]

Models == {"llava", "qwen3-vl:8b"}

NO_MODEL == "<None>"

(* line 1115: "qwen3-vl" not in self.current_model.lower() *)
use_streaming(model) == model # "qwen3-vl:8b"

(* the cyclic reply scripts the service may follow in one task *)
Patterns ==
    UNION { [1..n -> StepNames] : n \in 1..MaxPattern }

Scripted(pattern, k) == Situation(pattern[(k % Len(pattern)) + 1])

-----------------------------------------------------------------------------
(* Dispatch of one parsed action (execute_task, lines 1409-1611) *)

NONE == "<None>"

(* the executor method behind an action tag *)
TagPrimitive(tag) == IF tag = "open_app" THEN "open_application" ELSE tag

(* what the executor logs as the detail of the action *)
Detail(tag, p) ==
    CASE tag = "keyboard_type" -> Get(p, p.text, "")
      [] tag = "open_app" -> Get(p, p.app, "")
      [] tag = "hotkey" -> Get(p, p.keys, "")
      [] tag \in {"mouse_click", "mouse_move", "double_click", "right_click"}
           -> Get(p, p.pos, "0")
      [] OTHER -> ""

Effect(log, inc, action_result, history, os, execs, detects) ==
    [log |-> log, inc |-> inc, action_result |-> action_result,
     history |-> history, os |-> os, execs |-> execs, detects |-> detects]

(* variant: a failed call counts as a completed step *)
DispatchExecutor_counts_failures(tag, p, sit, perms, history, n) ==
    LET r == Execute(TagPrimitive(tag), Detail(tag, p), sit.raises, perms, history)
        okLog == CASE tag = "keyboard_type" -> <<<<"typed", n, Get(p, p.text, "")>>>>
                   [] tag = "open_app" -> <<<<"opened", n, p.app>>>>
                   [] OTHER -> <<>>
        okResult == CASE tag = "mouse_click" -> "Clicked"
                      [] tag = "keyboard_type" -> "Typed"
                      [] tag = "open_app" -> "Opened"
                      [] OTHER -> NONE
        failResult == CASE tag \in {"mouse_click", "keyboard_type"} -> "Failed"
                        [] tag = "open_app" -> "Failed to open"
                        [] OTHER -> NONE
    IN IF r.success
       THEN Effect(okLog, 1, okResult, r.history, r.os, 1, 0)
       ELSE Effect(<<<<"error", n, r.error>>>>, 1, failResult, r.history, r.os, 1, 0)

(* an executor-backed tag: the call, then the bookkeeping of its branch *)
DispatchExecutor(tag, p, sit, perms, history, n) ==
    LET r == Execute(TagPrimitive(tag), Detail(tag, p), sit.raises, perms, history)
        okLog == CASE tag = "keyboard_type" -> <<<<"typed", n, Get(p, p.text, "")>>>>
                   [] tag = "open_app" -> <<<<"opened", n, p.app>>>>
                   [] OTHER -> <<>>
        okResult == CASE tag = "mouse_click" -> "Clicked"
                      [] tag = "keyboard_type" -> "Typed"
                      [] tag = "open_app" -> "Opened"
                      [] OTHER -> NONE
        failResult == CASE tag \in {"mouse_click", "keyboard_type"} -> "Failed"
                        [] tag = "open_app" -> "Failed to open"
                        [] OTHER -> NONE
    IN IF r.success
       THEN Effect(okLog, 1, okResult, r.history, r.os, 1, 0)
       ELSE Effect(<<<<"error", n, r.error>>>>, 0, failResult, r.history, r.os, 1, 0)

(* variant: the mouse is moved after a miss as well *)
DispatchDetect_moves_on_miss(p, sit, perms, history, n) ==
    LET element_name == Get(p, p.element_name, "")
        move == Execute("mouse_move", "detected", sit.raises, perms, history)
    IN IF element_name = ""
       THEN Effect(<<<<"error", n, "Must specify element_name">>>>, 0,
                   "Failed: No element_name provided", history, 0, 0, 0)
       ELSE IF sit.hit
       THEN IF move.success
            THEN Effect(<<<<"detected", n, element_name>>, <<"moved", n, element_name>>>>,
                        1, "Found and moved", move.history, move.os, 1, 1)
            ELSE Effect(<<<<"detected", n, element_name>>, <<"move_failed", n, move.error>>>>,
                        1, "Found but mouse move failed", move.history, move.os, 1, 1)
       ELSE Effect(<<<<"not_found", n, element_name>>>>, 0, "not found", move.history,
                   move.os, 1, 1)

(* detect_ui_element: detection and, on a hit, the automatic mouse move *)
DispatchDetect(p, sit, perms, history, n) ==
    LET element_name == Get(p, p.element_name, "")
        move == Execute("mouse_move", "detected", sit.raises, perms, history)
    IN IF element_name = ""
       THEN Effect(<<<<"error", n, "Must specify element_name">>>>, 0,
                   "Failed: No element_name provided", history, 0, 0, 0)
       ELSE IF sit.hit
       THEN IF move.success
            THEN Effect(<<<<"detected", n, element_name>>, <<"moved", n, element_name>>>>,
                        1, "Found and moved", move.history, move.os, 1, 1)
            ELSE Effect(<<<<"detected", n, element_name>>, <<"move_failed", n, move.error>>>>,
                        1, "Found but mouse move failed", move.history, move.os, 1, 1)
       ELSE Effect(<<<<"not_found", n, element_name>>>>, 0, "not found", history, 0, 0, 1)

(* variant: an unknown tag counts as a completed step *)
Dispatch_unknown_counts(tag, p, sit, perms, history, n) ==
    CASE tag = "detect_ui_element" -> DispatchDetect(p, sit, perms, history, n)
      [] tag = "hotkey" /\ p.keys = ABSENT ->
           Effect(<<<<"error", n, "Invalid hotkey parameters">>>>, 0, NONE, history, 0, 0, 0)
      [] tag = "open_app" /\ Get(p, p.app, "") = "" ->
           Effect(<<<<"error", n, "No app specified">>>>, 0, "Failed: No app specified",
                  history, 0, 0, 0)
      [] tag \in ExecutorTags /\ ~(tag = "hotkey" /\ p.keys = ABSENT)
                              /\ ~(tag = "open_app" /\ Get(p, p.app, "") = "") ->
           DispatchExecutor(tag, p, sit, perms, history, n)
      [] tag = "wait" ->
           Effect(<<<<"waited", n, "">>>>, 0, NONE, history, 0, 0, 0)
      [] OTHER ->
           Effect(<<<<"unknown", n, tag>>>>, 1, "Unknown action", history, 0, 0, 0)

(* lines 1398-1611: the branch of the action tag *)
Dispatch(tag, p, sit, perms, history, n) ==
    CASE tag = "detect_ui_element" -> DispatchDetect(p, sit, perms, history, n)
      [] tag = "hotkey" /\ p.keys = ABSENT ->
           Effect(<<<<"error", n, "Invalid hotkey parameters">>>>, 0, NONE, history, 0, 0, 0)
      [] tag = "open_app" /\ Get(p, p.app, "") = "" ->
           Effect(<<<<"error", n, "No app specified">>>>, 0, "Failed: No app specified",
                  history, 0, 0, 0)
      [] tag \in ExecutorTags /\ ~(tag = "hotkey" /\ p.keys = ABSENT)
                              /\ ~(tag = "open_app" /\ Get(p, p.app, "") = "") ->
           DispatchExecutor(tag, p, sit, perms, history, n)
      [] tag = "wait" ->
           Effect(<<<<"waited", n, "">>>>, 0, NONE, history, 0, 0, 0)
      [] OTHER ->
           Effect(<<<<"unknown", n, tag>>>>, 0, "Unknown action", history, 0, 0, 0)

-----------------------------------------------------------------------------
(* One step from the final response text to the end of the step            *)
(* (execute_task, lines 1279-1635)                                          *)

(* variant: only the tag ends the task *)
IsComplete_tag_only(action_type, task_complete) == action_type = "complete"

(* line 1399 *)
IsComplete(action_type, task_complete) == action_type = "complete" \/ task_complete

(* variant: the abort signal is not acted on *)
GuardStops_never(g) == FALSE

(* lines 1383-1389: on the abort signal the loop is left before the step  *)
(* line is written and before the dispatch                                 *)
GuardStops(g) == g.abort

(* lines 1373-1386: what the guard writes to the log *)
GuardLog(g, action_type, n) ==
    (IF g.warn THEN <<<<"warning", n, action_type>>>> ELSE <<>>)
    \o (IF g.warn /\ action_type = "open_app" THEN <<<<"app_hint", n, "">>>> ELSE <<>>)
    \o (IF g.abort THEN <<<<"stopped", n, action_type>>>> ELSE <<>>)

(* variant: only the first step writes its step line *)
StepLine_first_only(log, n, action_type) ==
    IF n = 1 THEN Append(log, <<"step", n, action_type>>) ELSE log

(* line 1391: the line "Step n: action - reasoning" *)
StepLine(log, n, action_type) == Append(log, <<"step", n, action_type>>)

Outcome(kind, log, la, rc, sc, ctx, history, os, execs, detects) ==
    [kind |-> kind, log |-> log, last_action |-> la, repeat_count |-> rc,
     steps_completed |-> sc, task_context |-> ctx, history |-> history,
     os |-> os, execs |-> execs, detects |-> detects]

(* variant: the plan is executed whether or not the caller asked for it *)
AutoExecute_always(auto) == TRUE

(* line 1397: if auto_execute *)
AutoExecute(auto) == auto

(* the part after the fields are read: observation log, loop guard, step   *)
(* line, dispatch and context append                                        *)
AfterParse(f, sit, auto, n, log, la, rc, sc, ctx, perms, history) ==
    LET log1 == IF f.observation # ""
                THEN Append(log, <<"sees", n, f.observation>>) ELSE log
        g == LoopGuard(CurrentAction(f.action_type, f.parameters), la, rc)
        log2 == log1 \o GuardLog(g, f.action_type, n)
        log3 == StepLine(log2, n, f.action_type)
        d == Dispatch(f.action_type, Params(f.parameters), sit, perms, history, n)
    IN IF f.parameters = NOT_A_DICT
       THEN Outcome("exception", log1, la, rc, sc, ctx, history, 0, 0, 0)
       ELSE IF GuardStops(g)
       THEN Outcome("loop_abort", log2, g.last_action, g.repeat_count, sc, ctx,
                    history, 0, 0, 0)
       ELSE IF ~AutoExecute(auto)
       THEN Outcome("manual", log3, g.last_action, g.repeat_count, sc, ctx,
                    history, 0, 0, 0)
       ELSE IF IsComplete(f.action_type, f.task_complete)
       THEN Outcome("completed", Append(log3, <<"completed", 0, "">>),
                    g.last_action, g.repeat_count, sc, ctx, history, 0, 0, 0)
       ELSE Outcome("continue", log3 \o d.log, g.last_action, g.repeat_count,
                    sc + d.inc,
                    Append(ctx, <<n, f.action_type, d.action_result>>),
                    d.history, d.os, d.execs, d.detects)

ProcessOutcome(response, sit, auto, n, log, la, rc, sc, ctx, perms, history) ==
    LET text == Strip(response)
        ex == ExtractJson(text)
        jl == JsonLoads(ex.text)
        f == ExtractFields(jl.plan)
    IN IF text = <<>>
       THEN Outcome("empty", Append(log, <<"empty_response", n, "">>),
                    la, rc, sc, ctx, history, 0, 0, 0)
       ELSE IF ~ex.found
       THEN Outcome("no_json", log \o <<<<"invalid_format", n, "">>, <<"ai_said", n, "">>>>,
                    la, rc, sc, ctx, history, 0, 0, 0)
       ELSE IF ~jl.ok
       THEN Outcome("malformed", log \o <<<<"parse_error", n, "">>, <<"json_found", n, "">>>>,
                    la, rc, sc, ctx, history, 0, 0, 0)
       ELSE IF f.raises
       THEN Outcome("exception", log, la, rc, sc, ctx, history, 0, 0, 0)
       ELSE AfterParse(f, sit, auto, n, log, la, rc, sc, ctx, perms, history)

-----------------------------------------------------------------------------
(* Results returned by execute_task *)

Result(success, error, message, has_log, sc, confirm) ==
    [success |-> success, error |-> error, message |-> message,
     has_log |-> has_log, steps_completed |-> sc, requires_confirmation |-> confirm]

NoResult == Result(FALSE, "", "<no result>", FALSE, -1, FALSE)

NoModelResult == Result(FALSE, "No model selected", "", FALSE, -1, FALSE)

CancelledResult(sc) == Result(FALSE, "Operation cancelled by user", "", TRUE, sc, FALSE)

CaptureFailedResult == Result(FALSE, "Failed to capture screen", "", FALSE, -1, FALSE)

CompletedResult(sc) == Result(TRUE, "", "Task completed!", TRUE, sc, FALSE)

ManualResult == Result(TRUE, "", "Action plan ready. Confirm to execute.", TRUE, -1, TRUE)

(* lines 1637-1644: the result built after the for loop *)
AfterLoopResult(sc) == Result(TRUE, "", "Task execution stopped after 15 steps", TRUE, sc, FALSE)

(* lines 1646-1652 *)
ExceptionResult == Result(FALSE, "exception", "", TRUE, -1, FALSE)

-----------------------------------------------------------------------------
(* UI element detection (UIElementDetector, lines 281-476) *)

(* A query and an element name are texts of words: a sequence of strings.  *)
(* A keyword is a sequence of lower-case words; kw in query_lower holds    *)
(* when the keyword is a contiguous part of the lower-cased query.         *)

(* the detectors in the order detect_elements looks at them *)
DetectorOrder == <<"start", "edge", "folders", "searchbar">>

DetectorNames == {"start", "edge", "folders", "searchbar"}

(* the keyword tuples of lines 356, 378, 400 and 422 *)
Keywords(d) ==
    CASE d = "start" -> {<<"start", "button">>, <<"start", "menu">>, <<"windows", "start">>}
      [] d = "edge" -> {<<"edge">>, <<"browser">>, <<"microsoft", "edge">>}
      [] d = "folders" -> {<<"file", "explorer">>, <<"folders">>, <<"folder">>,
                           <<"explorer">>}
      [] d = "searchbar" -> {<<"search">>, <<"search", "bar">>}

(* DetectionResult.name of each detector *)
DetectionName(d) ==
    CASE d = "start" -> <<"Windows", "Start", "button">>
      [] d = "edge" -> <<"Edge", "Browser">>
      [] d = "folders" -> <<"File", "Explorer">>
      [] d = "searchbar" -> <<"Search", "Bar">>

(* element_query.lower() *)
LowerText(q) == [i \in DOMAIN q |-> Lower(q[i])]

(* kw in query_lower *)
Contains(q, kw) ==
    \E i \in 1..(Len(q) - Len(kw) + 1) : SubSeq(q, i, i + Len(kw) - 1) = kw

(* any(kw in query_lower for kw in (...)) *)
AnyKeyword(d, query_lower) == \E kw \in Keywords(d) : Contains(query_lower, kw)

(* A screenshot: the icons it shows and the layout of the task bar, which  *)
(* fixes where they are.                                                    *)
Shot(shows, layout) == [shows |-> shows, layout |-> layout]

NoShot == Shot({}, 0)

(* detector.detect_from_base64: the match on this screenshot, <<>> for None *)
DetectFromBase64(d, shot) ==
    IF d \in shot.shows
    THEN <<[name |-> DetectionName(d), x |-> 100 * shot.layout, y |-> 1040]>>
    ELSE <<>>

(* lines 360-369: the element dict built from a detection *)
Element(detection) == [name |-> detection.name, x |-> detection.x, y |-> detection.y]

NoElements == <<>>

(* self.detected_elements[element["name"]] = element *)
CacheElement(cache, element) ==
    [n \in DOMAIN cache \cup {element.name} |->
        IF n = element.name THEN element ELSE cache[n]]

(* lines 355-443 from the i-th keyword test on: the list returned, the     *)
(* cache afterwards and the detectors that were run                        *)
RECURSIVE Route(_, _, _, _, _)
Route(i, query_lower, shot, available, cache) ==
    IF i > Len(DetectorOrder)
    THEN [elements |-> <<>>, cache |-> cache, tried |-> {}]
    ELSE LET d == DetectorOrder[i] IN
         IF AnyKeyword(d, query_lower) /\ available[d]
         THEN LET detection == DetectFromBase64(d, shot) IN
              IF detection # <<>>
              THEN [elements |-> <<Element(detection[1])>>,
                    cache |-> CacheElement(cache, Element(detection[1])),
                    tried |-> {d}]
              ELSE [elements |-> <<>>, cache |-> cache, tried |-> {d}]
         ELSE Route(i + 1, query_lower, shot, available, cache)

(* UIElementDetector.detect_elements (lines 336-449) *)
detect_elements(shot, element_query, available, cache) ==
    IF element_query = <<>>
    THEN [elements |-> <<>>, cache |-> cache, tried |-> {}]
    ELSE Route(1, LowerText(element_query), shot, available, cache)

(* UIElementDetector.find_element (lines 451-466): the element, or <<>> for *)
(* None                                                                      *)
find_element(element_name, shot, available, cache) ==
    IF element_name \in DOMAIN cache
    THEN [elements |-> <<cache[element_name]>>, cache |-> cache, tried |-> {}]
    ELSE IF shot # NoShot
         THEN detect_elements(shot, element_name, available, cache)
         ELSE [elements |-> <<>>, cache |-> cache, tried |-> {}]

(* UIElementDetector.get_click_coordinates (lines 468-476): <<>> for None *)
get_click_coordinates(element_name, shot, available, cache) ==
    LET found == find_element(element_name, shot, available, cache) IN
    IF found.elements # <<>>
    THEN <<found.elements[1].x, found.elements[1].y>>
    ELSE <<>>

NoDetect ==
    [op |-> "<none>", query |-> <<>>, given |-> NoShot, elements |-> <<>>,
     tried |-> {}, click |-> <<>>]

-----------------------------------------------------------------------------
(* The Start button detector (src/ui_detection_improved.py, lines 73-171)  *)

(* confidences are in hundredths *)
accept_threshold == 55

candidate_threshold == 45

(* What the detector measures on an image: the best template score over    *)
(* all scales and methods (NO_MATCH when no scale fits the region), whether *)
(* the patch cropped around the match is empty, and the outcome of the     *)
(* colour and the shape check on it                                        *)
Measure(best, patch_empty, colour_ok, shape_ok) ==
    [best |-> best, patch_empty |-> patch_empty, colour_ok |-> colour_ok,
     shape_ok |-> shape_ok]

NO_MATCH == 0 - 1000

NoMeasure == Measure(NO_MATCH, FALSE, FALSE, FALSE)

NoStart == [done |-> FALSE, found |-> FALSE, confidence |-> 0, method |-> ""]

(* lines 168-171: the best match is a candidate from 0.45 on; NO_MATCH for *)
(* None                                                                     *)
run_template_matching(best) ==
    IF best # NO_MATCH /\ best >= candidate_threshold THEN best ELSE NO_MATCH

StartResult(found, confidence, method) ==
    [done |-> TRUE, found |-> found, confidence |-> confidence, method |-> method]

(* variant: a candidate in the lower band is accepted on its score alone *)
StartDetect_score_only(m) ==
    LET template_match == run_template_matching(m.best) IN
    IF template_match = NO_MATCH THEN StartResult(FALSE, 0, "")
    ELSE IF template_match >= accept_threshold
    THEN StartResult(TRUE, template_match, "opencv_template_matching")
    ELSE StartResult(TRUE, template_match, "opencv_template+colour+shape")

(* StartButtonDetector.detect (lines 73-123) *)
StartDetect(m) ==
    LET template_match == run_template_matching(m.best) IN
    IF template_match = NO_MATCH THEN StartResult(FALSE, 0, "")
    ELSE IF template_match >= accept_threshold
    THEN StartResult(TRUE, template_match, "opencv_template_matching")
    ELSE IF m.patch_empty THEN StartResult(FALSE, 0, "")
    ELSE IF ~(m.colour_ok /\ m.shape_ok) THEN StartResult(FALSE, 0, "")
    ELSE StartResult(TRUE, template_match, "opencv_template+colour+shape")

-----------------------------------------------------------------------------
(* Multi-scale template matching (src/ui_detection_improved.py, lines      *)
(* 136-171 and 450-494).  Sizes are in pixels, scales in percent, scores   *)
(* in hundredths.                                                           *)

scales == <<60, 70, 80, 90, 100, 110, 120, 130, 150>>

methods == <<"TM_CCOEFF_NORMED", "TM_CCORR_NORMED">>

(* the scale x method combinations in the order the loops visit them *)
Combinations == 1..(Len(scales) * Len(methods))

ScaleOf(k) == scales[((k - 1) \div Len(methods)) + 1]

MethodOf(k) == methods[((k - 1) % Len(methods)) + 1]

generic_threshold == 50

min_template == 10

(* int(size * scale), lines 463-464 *)
Truncated(size, pct) == (size * pct) \div 100

(* cv2.resize(..., fx=scale, fy=scale): the size is rounded, halves to even *)
Rounded(size, pct) ==
    LET q == (size * pct) \div 100
        r == (size * pct) % 100
    IN IF r > 50 \/ (r = 50 /\ q % 2 = 1) THEN q + 1 ELSE q

(* An image and a square reference: the side of the reference, the region, *)
(* and what cv2.minMaxLoc gives for each combination: the score baseline   *)
(* except at the peaks, which are <<combination, score>> pairs; the best   *)
(* location of combination k is called k.                                   *)
MatchInput(template, roi_h, roi_w, baseline, peaks) ==
    [template |-> template, roi_h |-> roi_h, roi_w |-> roi_w,
     baseline |-> baseline, peaks |-> peaks]

(* max_val of cv2.minMaxLoc(cv2.matchTemplate(...)) *)
max_val(in, k) ==
    IF \E i \in DOMAIN in.peaks : in.peaks[i][1] = k
    THEN in.peaks[CHOOSE i \in DOMAIN in.peaks : in.peaks[i][1] = k][2]
    ELSE in.baseline

TemplateMatch(side, confidence, loc) ==
    [width |-> side, height |-> side, confidence |-> confidence, loc |-> loc]

(* variant: an equal score replaces the match kept so far *)
Better_or_equal(score, best) == score >= best

(* lines 159 and 480: the comparison with the best score so far *)
Better(score, best) == score > best

(* lines 149-150: the scale is skipped *)
StartSkips(in, k) ==
    LET t == Rounded(in.template, ScaleOf(k)) IN t >= in.roi_h \/ t >= in.roi_w

(* lines 144-166; best_match is <<>> for None *)
RECURSIVE StartBest(_, _, _)
StartBest(in, k, best_match) ==
    IF k \notin Combinations THEN best_match
    ELSE IF StartSkips(in, k) THEN StartBest(in, k + 1, best_match)
    ELSE IF best_match = <<>>
    THEN StartBest(in, k + 1,
                   <<TemplateMatch(Rounded(in.template, ScaleOf(k)), max_val(in, k), k)>>)
    ELSE IF Better(max_val(in, k), best_match[1].confidence)
    THEN StartBest(in, k + 1,
                   <<TemplateMatch(Rounded(in.template, ScaleOf(k)), max_val(in, k), k)>>)
    ELSE StartBest(in, k + 1, best_match)

(* StartButtonDetector._run_template_matching (lines 136-171) *)
start_run_template_matching(in) ==
    LET best_match == StartBest(in, 1, <<>>) IN
    IF best_match # <<>>
    THEN IF best_match[1].confidence >= candidate_threshold THEN best_match ELSE <<>>
    ELSE <<>>

(* lines 466-469: the scale is skipped *)
GenericSkips(in, k) ==
    LET new == Truncated(in.template, ScaleOf(k)) IN
    \/ new < min_template
    \/ new > in.roi_w \/ new > in.roi_h

(* lines 454-488: the pair of best_confidence and best_match *)
RECURSIVE GenericBest(_, _, _, _)
GenericBest(in, k, best_confidence, best_match) ==
    IF k \notin Combinations THEN <<best_confidence, best_match>>
    ELSE IF GenericSkips(in, k) THEN GenericBest(in, k + 1, best_confidence, best_match)
    ELSE IF Better(max_val(in, k), best_confidence)
    THEN GenericBest(in, k + 1, max_val(in, k),
                     <<TemplateMatch(Truncated(in.template, ScaleOf(k)), max_val(in, k), k)>>)
    ELSE GenericBest(in, k + 1, best_confidence, best_match)

(* GenericUIDetector._run_template_matching (lines 450-494) *)
generic_run_template_matching(in) ==
    LET best == GenericBest(in, 1, 0, <<>>) IN
    IF best[1] >= generic_threshold THEN best[2] ELSE <<>>

NoMatchInput == MatchInput(0, 0, 0, 0, <<>>)

NoMatch == [start_done |-> FALSE, start |-> <<>>, generic_done |-> FALSE, generic |-> <<>>]

-----------------------------------------------------------------------------
(* The shape check of the Start button detector (lines 204-271).  A patch  *)
(* is given by its extent and the contours found in its thresholded image, *)
(* each with its bounding box and its area.                                 *)

Blob(x, y, w, h, area) == [x |-> x, y |-> y, w |-> w, h |-> h, area |-> area]

Patch(h, w, contours) == [h |-> h, w |-> w, contours |-> contours]

(* lines 233-234 *)
min_size(patch) == (Min(patch.h, patch.w) * 15) \div 100

max_size(patch) == (Min(patch.h, patch.w) * 50) \div 100

(* lines 237-245: the contour is appended to squares *)
IsSquare(patch, b) ==
    /\ ~(\/ b.area < min_size(patch) * min_size(patch)
         \/ b.area > max_size(patch) * max_size(patch))
    /\ Max(b.h, 1) <= 2 * b.w
    /\ b.w <= 2 * Max(b.h, 1)

Squares(patch) == SelectSeq(patch.contours, LAMBDA b : IsSquare(patch, b))

(* line 254: the centres, in half pixels, as <<x, y>> *)
Centers(squares) == [i \in DOMAIN squares |->
                        <<2 * squares[i].x + squares[i].w, 2 * squares[i].y + squares[i].h>>]

(* c precedes d under the key (y, x) *)
Precedes(c, d) == c[2] < d[2] \/ (c[2] = d[2] /\ c[1] <= d[1])

Without(seq, i) == SubSeq(seq, 1, i - 1) \o SubSeq(seq, i + 1, Len(seq))

(* line 255: sorted(centers, key=lambda c: (c[1], c[0])) *)
RECURSIVE SortCenters(_)
SortCenters(centers) ==
    IF centers = <<>> THEN <<>>
    ELSE LET i == CHOOSE i \in DOMAIN centers :
                     \A j \in DOMAIN centers : Precedes(centers[i], centers[j])
         IN <<centers[i]>> \o SortCenters(Without(centers, i))

Abs(n) == IF n < 0 THEN 0 - n ELSE n

(* lines 258-267: the gaps between the first centres are similar *)
GridAligned(patch, squares) ==
    LET centers == SortCenters(Centers(squares))
        top_row == SubSeq(centers, 1, 2)
        bottom_row == SubSeq(centers, 3, 4)
        vertical_gap == Abs(top_row[1][2] - bottom_row[1][2])
        horizontal_gap == Abs(top_row[1][1] - top_row[2][1])
    IN 10 * Abs(vertical_gap - horizontal_gap) < 6 * patch.h

(* variant: four or more squares must also form the grid *)
passes_shape_check_grid_required(patch) ==
    IF patch.h * patch.w = 0 THEN FALSE
    ELSE IF Len(Squares(patch)) < 3 THEN FALSE
    ELSE IF Len(Squares(patch)) >= 4
    THEN GridAligned(patch, Squares(patch))
    ELSE Len(Squares(patch)) >= 3

(* StartButtonDetector._passes_shape_check (lines 204-271) *)
passes_shape_check(patch) ==
    IF patch.h * patch.w = 0 THEN FALSE
    ELSE IF Len(Squares(patch)) < 3 THEN FALSE
    ELSE IF Len(Squares(patch)) >= 4
    THEN IF GridAligned(patch, Squares(patch)) THEN TRUE
         ELSE Len(Squares(patch)) >= 3
    ELSE Len(Squares(patch)) >= 3

NoPatch == Patch(0, 0, <<>>)

NoShape == [done |-> FALSE, accepted |-> FALSE]

-----------------------------------------------------------------------------
(* State *)

VARIABLES
    permissions,       \* TaskExecutor.permissions
    action_history,    \* TaskExecutor.action_history
    cancel_requested,  \* AgentMode.cancel_requested
    current_model,     \* AgentMode.current_model
    overlay,           \* "stopped" or "running"
    screenshots,       \* number of files in the screenshots directory
    pc,                \* position of the execute_task call
    auto_execute,      \* argument of the call
    step,              \* loop variable of the for loop
    steps_completed,
    execution_log,
    last_action,
    repeat_count,
    task_context,
    lines_processed,   \* lines of the streamed response read in this step
    response_text,
    situation,         \* what the environment does in the current step
    script,            \* the replies the service gives in this task
    result,            \* value returned by execute_task
    outcome,           \* the branch on which the task left the loop
    step_ops,          \* operations performed in the current step
    os_calls,          \* OS input calls made so far
    cleanup,           \* what the finally block did
    last_op,           \* the operation that made the last transition
    call_result,       \* result of the last direct executor call
    calls,             \* number of direct executor calls
    guard_in,          \* signatures still to be fed to the loop guard
    guard_out,         \* repeat counts and abort signals the guard gave
    parse_in,          \* a response text handed to the parser, by its parts
    parse_out,         \* what the parser made of it
    detectors,         \* UIElementDetector: which of the four detectors exist
    detected_elements, \* UIElementDetector.detected_elements
    detect_out,        \* the last detect_elements or find_element call
    start_in,          \* what StartButtonDetector.detect measures on an image
    start_out,         \* what it returns
    stream_in,         \* the lines of a streamed response
    stream_out,        \* the text read from them
    match_in,          \* the image given to the template matchers
    match_out,         \* what the two matchers returned
    shape_in,          \* the patch given to the shape check
    shape_out          \* what the shape check returned

agentVars ==
    <<permissions, action_history, cancel_requested, current_model, overlay,
      screenshots>>

taskVars ==
    <<pc, auto_execute, step, steps_completed, execution_log, last_action,
      repeat_count, task_context, lines_processed, response_text, situation,
      script, result, outcome>>

ghostVars == <<step_ops, os_calls, cleanup, last_op>>

execVars == <<call_result, calls>>

guardVars == <<guard_in, guard_out>>

parseVars == <<parse_in, parse_out>>

detectVars == <<detectors, detected_elements, detect_out>>

startVars == <<start_in, start_out>>

visionVars == <<match_in, match_out, shape_in, shape_out>>

streamVars == <<stream_in, stream_out>>

unitVars ==
    <<execVars, guardVars, parseVars, detectVars, startVars, streamVars, visionVars>>

vars == <<agentVars, taskVars, ghostVars, unitVars>>

NoOps ==
    [capture |-> 0, infer |-> 0, exec |-> 0, detect |-> 0, cancel_seen |-> FALSE,
     context |-> <<>>]

NoCleanup == [overlay_stopped |-> FALSE, unloaded |-> FALSE, pruned |-> FALSE]

NoSituation == Sit("raw", <<>>, FALSE, FALSE)

NoCall ==
    [op |-> "<none>", arg |-> "", raises |-> FALSE, limit |-> 0, success |-> FALSE,
     error |-> "", action |-> <<>>]

NoInput == [shape |-> "none", prefix |-> <<>>, object |-> <<>>, suffix |-> <<>>]

NoParse == [done |-> FALSE, found |-> FALSE, text |-> <<>>, ok |-> FALSE]

(* the state after AgentMode.__init__ *)
InitAgent ==
    /\ permissions = InitialPermissions
    /\ action_history = <<>>
    /\ cancel_requested = FALSE
    /\ current_model = NO_MODEL
    /\ overlay = "stopped"
    /\ screenshots = 0

InitTask ==
    /\ pc = "idle"
    /\ auto_execute = TRUE
    /\ step = 0
    /\ steps_completed = 0
    /\ execution_log = <<>>
    /\ last_action = NO_ACTION
    /\ repeat_count = 0
    /\ task_context = <<>>
    /\ lines_processed = 0
    /\ response_text = <<>>
    /\ situation = NoSituation
    /\ script = <<>>
    /\ result = NoResult
    /\ outcome = "none"

InitGhost ==
    /\ step_ops = NoOps
    /\ os_calls = 0
    /\ cleanup = NoCleanup
    /\ last_op = "init"

InitExec ==
    /\ call_result = NoCall
    /\ calls = 0

InitNoGuard ==
    /\ guard_in = <<>>
    /\ guard_out = <<>>

InitNoParse ==
    /\ parse_in = NoInput
    /\ parse_out = NoParse

(* UIElementDetector.__init__ with every asset in place *)
InitDetector ==
    /\ detectors = [d \in DetectorNames |-> TRUE]
    /\ detected_elements = NoElements
    /\ detect_out = NoDetect

InitNoStart ==
    /\ start_in = NoMeasure
    /\ start_out = NoStart

InitNoStream ==
    /\ stream_in = <<>>
    /\ stream_out = NoStream

InitNoVision ==
    /\ match_in = NoMatchInput
    /\ match_out = NoMatch
    /\ shape_in = NoPatch
    /\ shape_out = NoShape

InitUnit ==
    /\ InitExec /\ InitNoGuard /\ InitNoParse /\ InitDetector /\ InitNoStart
    /\ InitNoStream /\ InitNoVision

Init == InitAgent /\ InitTask /\ InitGhost /\ InitUnit

-----------------------------------------------------------------------------
(* Owner-side calls.  They arrive on other request threads of the web      *)
(* application; permission changes are taken while no step is in flight.   *)

(* AgentMode.set_model: the model is set when the service lists it *)
SetModel(model, listed) ==
    /\ pc = "idle"
    /\ current_model = NO_MODEL
    /\ current_model' = IF listed THEN model ELSE current_model
    /\ last_op' = "set_model"
    /\ UNCHANGED <<permissions, action_history, cancel_requested, overlay, screenshots>>
    /\ UNCHANGED <<taskVars, step_ops, os_calls, cleanup, unitVars>>

(* the capabilities the owner sets while a task is prepared *)
OwnerCapabilities == {"mouse_click"}

OwnerRequests ==
    UNION { [D -> BOOLEAN] : D \in (SUBSET OwnerCapabilities) \ {{}} }

(* AgentMode.set_permissions: set_permission for every item of the dict *)
RECURSIVE ApplyPermissions(_, _, _)
ApplyPermissions(perms, request, todo) ==
    IF todo = {} THEN perms
    ELSE LET c == CHOOSE x \in todo : TRUE
         IN ApplyPermissions(set_permission(perms, c, request[c]), request, todo \ {c})

SetPermissionsCall(request) ==
    /\ permissions' = ApplyPermissions(permissions, request, DOMAIN request)
    /\ last_op' = "set_permissions"
    /\ UNCHANGED <<action_history, cancel_requested, current_model, overlay, screenshots>>
    /\ UNCHANGED <<taskVars, step_ops, os_calls, cleanup, unitVars>>

(* a call that arrives before the task or while it starts up *)
SetPermissions(request) ==
    /\ pc \in {"idle", "startup"}
    /\ SetPermissionsCall(request)

(* a call that arrives between two steps of a running task *)
SetPermissionsMidTask(request) ==
    /\ pc = "step"
    /\ SetPermissionsCall(request)

(* AgentMode.cancel_operation: raise the flag and stop the overlay.  A call *)
(* that arrives after the last poll of a step acts like one that arrives   *)
(* before the next step begins.                                             *)
CancelOperation ==
    /\ pc \in {"idle", "startup", "step", "request", "stream"}
    /\ cancel_requested' = TRUE
    /\ overlay' = "stopped"
    /\ last_op' = "cancel_operation"
    /\ UNCHANGED <<permissions, action_history, current_model, screenshots>>
    /\ UNCHANGED <<taskVars, step_ops, os_calls, cleanup, unitVars>>

-----------------------------------------------------------------------------
(* AgentMode.execute_task *)

(* lines 886-891: the four set_permission calls at the start of a task *)
TaskPermissions(perms) ==
    set_permission(set_permission(set_permission(set_permission(perms,
        "mouse_click", TRUE), "keyboard_type", TRUE), "file_operations", TRUE),
        "system_commands", TRUE)

(* variant: the task starts whether or not a model is selected *)
NoModelSelected_never(model) == FALSE

(* line 883: if not self.current_model *)
NoModelSelected(model) == model = NO_MODEL

(* lines 881-918: entry of the call up to the try block *)
ExecuteTask(auto, pattern) ==
    /\ pc = "idle"
    /\ last_op' = "execute_task"
    /\ IF NoModelSelected(current_model)
       THEN /\ result' = NoModelResult
            /\ outcome' = "no_model"
            /\ UNCHANGED <<pc, auto_execute, step, steps_completed, execution_log,
                           last_action, repeat_count, task_context, lines_processed,
                           response_text, situation, script>>
            /\ UNCHANGED agentVars
       ELSE /\ permissions' = TaskPermissions(permissions)
            /\ overlay' = "running"
            /\ auto_execute' = auto
            /\ script' = pattern
            /\ execution_log' = <<<<"original_task", 0, "">>>>
            /\ steps_completed' = 0
            /\ last_action' = NO_ACTION
            /\ repeat_count' = 0
            /\ task_context' = <<>>
            /\ pc' = "startup"
            /\ result' = NoResult
            /\ outcome' = "none"
            /\ UNCHANGED <<action_history, cancel_requested, current_model, screenshots>>
            /\ UNCHANGED <<step, lines_processed, response_text, situation>>
    /\ UNCHANGED <<step_ops, os_calls, cleanup, unitVars>>

(* line 922: the cancel flag is reset when the try block is entered *)
TaskReset ==
    /\ pc = "startup"
    /\ cancel_requested' = FALSE
    /\ step' = 0
    /\ pc' = "step"
    /\ last_op' = "execute_task"
    /\ UNCHANGED <<permissions, action_history, current_model, overlay, screenshots>>
    /\ UNCHANGED <<auto_execute, steps_completed, execution_log, last_action,
                   repeat_count, task_context, lines_processed, response_text,
                   situation, script, result, outcome>>
    /\ UNCHANGED <<step_ops, os_calls, cleanup, unitVars>>

(* cleanup_old_screenshots(keep_last) *)
Prune(n, keep) == IF n > keep THEN keep ELSE n

(* variant: the model stays loaded *)
Cleanup_keeps_model(has_model) ==
    [overlay_stopped |-> TRUE, unloaded |-> FALSE, pruned |-> TRUE]

(* lines 1654-1670: what the finally block does *)
Cleanup(has_model) ==
    [overlay_stopped |-> TRUE, unloaded |-> has_model, pruned |-> TRUE]

(* a return from inside the try block: the finally block (lines 1654-1672) *)
(* runs before the value reaches the caller.  shots: files on disk.         *)
Return(res, out, shots) ==
    /\ result' = res
    /\ outcome' = out
    /\ cleanup' = Cleanup(current_model # NO_MODEL)
    /\ overlay' = IF cleanup'.overlay_stopped THEN "stopped" ELSE overlay
    /\ screenshots' = IF cleanup'.pruned THEN Prune(shots, keep_last) ELSE shots
    /\ pc' = "done"

(* lines 1637-1644: a break, like the exhaustion of the loop, falls through *)
(* to the result built after the loop                                       *)
Break(out, sc) == Return(AfterLoopResult(sc), out, screenshots)

(* variant: the flag is not looked at *)
CancelCheck_ignored(flag) == FALSE

(* lines 926 and 1214 *)
CancelCheck(flag) == flag

(* variant: the loop runs while the index is at most max_steps *)
LoopDone_one_more(k) == k > max_steps

(* line 924: range(max_steps) is exhausted *)
LoopDone(k) == k >= max_steps

(* variant: the first entries of the task are shown *)
ContextWindow_oldest(ctx) == SubSeq(ctx, 1, Min(Len(ctx), context_window))

(* line 953: task_context[-5:], the entries the prompt lists *)
ContextWindow(ctx) == SubSeq(ctx, Max(1, Len(ctx) - context_window + 1), Len(ctx))

(* lines 924-957: loop test, cancellation check, screen capture and the    *)
(* context summary of the prompt                                            *)
StepBegin(captured) ==
    /\ pc = "step"
    /\ last_op' = "execute_task"
    /\ IF LoopDone(step)
       THEN /\ Break("step_limit", steps_completed)
            /\ UNCHANGED <<execution_log, step_ops>>
       ELSE IF CancelCheck(cancel_requested)
       THEN /\ execution_log' = Append(execution_log, <<"cancelled", 0, "">>)
            /\ Return(CancelledResult(steps_completed), "cancelled", screenshots)
            /\ step_ops' = NoOps
       ELSE /\ step_ops' = [NoOps EXCEPT !.capture = 1,
                                       !.context = IF captured
                                                   THEN ContextWindow(task_context)
                                                   ELSE <<>>]
            /\ IF captured
               THEN /\ screenshots' = screenshots + 1
                    /\ pc' = "request"
                    /\ UNCHANGED <<result, outcome, cleanup, overlay>>
               ELSE Return(CaptureFailedResult, "capture_failed", screenshots)
            /\ UNCHANGED execution_log
    /\ UNCHANGED <<permissions, action_history, cancel_requested, current_model>>
    /\ UNCHANGED <<auto_execute, step, steps_completed, last_action, repeat_count,
                   task_context, lines_processed, response_text, situation, script>>
    /\ UNCHANGED <<os_calls, unitVars>>

(* the replies the service may give in a step: the scripted one, the       *)
(* scripted one marked task_complete, or one that ends the task             *)
ReplyChoices == {"scripted", "scripted_done"} \cup TerminalNames

ReplyAt(pattern, k, choice) ==
    CASE choice = "scripted" -> Scripted(pattern, k)
      [] choice = "scripted_done" -> WithTaskComplete(Scripted(pattern, k))
      [] choice = "scripted_raises" -> [Scripted(pattern, k) EXCEPT !.raises = TRUE]
      [] OTHER -> Situation(choice)

Transports == {"ok", "exception", "http_error"}

(* lines 1108-1191 and 1272-1277: the request to the inference service; a  *)
(* buffered reply (stream=false) arrives whole                              *)
Request(transport, choice) ==
    /\ pc = "request"
    /\ last_op' = "execute_task"
    /\ step_ops' = [step_ops EXCEPT !.infer = @ + 1]
    /\ IF transport # "ok"
       THEN /\ execution_log' = Append(execution_log, <<"generation_failed", step + 1, "">>)
            /\ Break("transport", steps_completed)
            /\ UNCHANGED <<lines_processed, response_text, situation>>
       ELSE /\ lines_processed' = 0
            /\ IF use_streaming(current_model)
               THEN /\ situation' = NoSituation
                    /\ response_text' = <<>>
                    /\ pc' = "stream"
               ELSE /\ situation' = ReplyAt(script, step, choice)
                    /\ response_text' = Text(situation')
                    /\ pc' = "process"
            /\ UNCHANGED <<execution_log, result, outcome, cleanup, overlay, screenshots>>
    /\ UNCHANGED <<permissions, action_history, cancel_requested, current_model>>
    /\ UNCHANGED <<auto_execute, step, steps_completed, last_action, repeat_count,
                   task_context, script>>
    /\ UNCHANGED <<os_calls, unitVars>>

(* lines 1210-1271: one iteration of the loop over the streamed lines.     *)
(* choice: the reply the service is streaming; fails: reading raises.      *)
StreamLine(choice, fails) ==
    /\ pc = "stream"
    /\ last_op' = "execute_task"
    /\ LET sit == IF lines_processed = 0 THEN ReplyAt(script, step, choice) ELSE situation
           line == ChunkLine(StreamLineOf(sit, lines_processed))
       IN IF fails
          THEN /\ execution_log' = Append(execution_log, <<"streaming_failed", step + 1, "">>)
               /\ Break("stream_error", steps_completed)
               /\ UNCHANGED <<lines_processed, response_text, situation, step_ops>>
          ELSE IF CancelCheck(cancel_requested)
          THEN /\ pc' = "process"
               /\ lines_processed' = lines_processed + 1
               /\ step_ops' = [step_ops EXCEPT !.cancel_seen = TRUE]
               /\ UNCHANGED <<response_text, situation, execution_log, result,
                              outcome, cleanup, overlay, screenshots>>
          ELSE /\ response_text' = LineStep(response_text, line).text
               /\ situation' = sit
               /\ lines_processed' = lines_processed + 1
               /\ pc' = IF LineStep(response_text, line).stop THEN "process" ELSE "stream"
               /\ UNCHANGED <<execution_log, step_ops, result, outcome, cleanup,
                              overlay, screenshots>>
    /\ UNCHANGED <<permissions, action_history, cancel_requested, current_model>>
    /\ UNCHANGED <<auto_execute, step, steps_completed, last_action, repeat_count,
                   task_context, script>>
    /\ UNCHANGED <<os_calls, unitVars>>

(* lines 1279-1635: strip, parse, loop guard, dispatch, context append *)
ProcessResponse ==
    /\ pc = "process"
    /\ last_op' = "execute_task"
    /\ \E o \in {ProcessOutcome(response_text, situation, auto_execute, step + 1,
                               execution_log, last_action, repeat_count,
                               steps_completed, task_context, permissions,
                               action_history)} :
          /\ execution_log' = o.log
          /\ last_action' = o.last_action
          /\ repeat_count' = o.repeat_count
          /\ steps_completed' = o.steps_completed
          /\ task_context' = o.task_context
          /\ action_history' = o.history
          /\ os_calls' = os_calls + o.os
          /\ step_ops' = [step_ops EXCEPT !.exec = @ + o.execs, !.detect = @ + o.detects]
          /\ CASE o.kind = "continue" ->
                    /\ step' = step + 1
                    /\ pc' = "step"
                    /\ UNCHANGED <<result, outcome, cleanup, overlay, screenshots>>
               [] o.kind = "completed" ->
                    /\ Return(CompletedResult(o.steps_completed), "completed", screenshots)
                    /\ UNCHANGED step
               [] o.kind = "manual" ->
                    /\ Return(ManualResult, "manual", screenshots)
                    /\ UNCHANGED step
               [] o.kind = "exception" ->
                    /\ Return(ExceptionResult, "exception", screenshots)
                    /\ UNCHANGED step
               [] OTHER ->
                    /\ Break(o.kind, o.steps_completed)
                    /\ UNCHANGED step
    /\ UNCHANGED <<permissions, cancel_requested, current_model>>
    /\ UNCHANGED <<auto_execute, lines_processed, response_text, situation, script>>
    /\ UNCHANGED unitVars

-----------------------------------------------------------------------------
(* The agent with one task *)

(* the service decides on its reply when the text is due: with the request *)
(* of a buffered call, with the first line of a streamed one                *)
RepliesDue ==
    IF \/ pc = "request" /\ ~use_streaming(current_model)
       \/ pc = "stream" /\ lines_processed = 0
    THEN ReplyChoices
    ELSE {"scripted"}

Next ==
    \/ \E m \in Models, listed \in BOOLEAN : SetModel(m, listed)
    \/ \E request \in OwnerRequests : SetPermissions(request)
    \/ CancelOperation
    \/ \E auto \in BOOLEAN, pattern \in Patterns : ExecuteTask(auto, pattern)
    \/ TaskReset
    \/ \E captured \in BOOLEAN : StepBegin(captured)
    \/ \E transport \in Transports, choice \in RepliesDue : Request(transport, choice)
    \/ \E choice \in RepliesDue, fails \in BOOLEAN : StreamLine(choice, fails)
    \/ ProcessResponse

Spec == Init /\ [][Next]_vars

(* The thread that runs execute_task is scheduled, and every screen        *)
(* capture, inference request and OS action returns: a call that has been  *)
(* entered keeps moving.                                                    *)
TaskMove ==
    \/ TaskReset
    \/ \E captured \in BOOLEAN : StepBegin(captured)
    \/ \E transport \in Transports, choice \in RepliesDue : Request(transport, choice)
    \/ \E choice \in RepliesDue, fails \in BOOLEAN : StreamLine(choice, fails)
    \/ ProcessResponse

(* the replies of a task: one reply repeated, which the loop guard stops,  *)
(* or two replies in turn, which it does not                                *)
LivePatterns ==
    { <<name>> : name \in StepNames }
       \cup {<<"wait", "click">>, <<"type_a", "detect_miss">>, <<"unknown", "click_fails">>}

(* one task in which the service follows the pattern until it gives a      *)
(* reply that ends the task, a request fails, or the owner cancels          *)
NextLive ==
    \/ \E m \in Models : SetModel(m, TRUE)
    \/ CancelOperation
    \/ \E auto \in BOOLEAN, pattern \in LivePatterns : ExecuteTask(auto, pattern)
    \/ TaskMove

(* A move of the call seen on its position: every move of the call changes *)
(* pc or the count of lines read, and while the call runs nothing else     *)
(* does.                                                                    *)
TaskAdvance ==
    /\ pc \in {"startup", "step", "request", "stream", "process"}
    /\ pc' \in {"step", "request", "stream", "process", "done"}
    /\ lines_processed' \in 0..3
    /\ <<pc', lines_processed'>> # <<pc, lines_processed>>

SpecLive == Init /\ [][NextLive]_vars /\ WF_<<pc, lines_processed>>(TaskAdvance)

-----------------------------------------------------------------------------
(* The agent with one task in which the service repeats one reply, over    *)
(* the whole action table.  The owner revokes capabilities while the task  *)
(* starts up and grants them again between two steps.                      *)

TableNames ==
    ExecutorTags \cup {"wait", "detect_hit", "detect_miss", "detect_no_name",
                       "unknown", "no_tag", "empty_tag", "hotkey_no_keys",
                       "open_app_no_app", "complete_upper"}

Revocations == { [c \in {d} |-> FALSE] : d \in Capabilities }

GrantAll == [c \in Capabilities |-> TRUE]

ActionChoices == {"scripted", "scripted_raises", "scripted_done"}

ActionRepliesDue ==
    IF \/ pc = "request" /\ ~use_streaming(current_model)
       \/ pc = "stream" /\ lines_processed = 0
    THEN ActionChoices
    ELSE {"scripted"}

NextActions ==
    \/ \E m \in Models : SetModel(m, TRUE)
    \/ \E request \in Revocations : SetPermissions(request)
    \/ /\ \E c \in Capabilities : ~request_permission(permissions, c)
       /\ SetPermissionsMidTask(GrantAll)
    \/ \E auto \in BOOLEAN, name \in TableNames : ExecuteTask(auto, <<name>>)
    \/ TaskReset
    \/ StepBegin(TRUE)
    \/ \E choice \in ActionRepliesDue : Request("ok", choice)
    \/ \E choice \in ActionRepliesDue : StreamLine(choice, FALSE)
    \/ ProcessResponse

SpecActions == Init /\ [][NextActions]_vars

-----------------------------------------------------------------------------
(* The agent behind the web API (src/web_app.py, lines 2301-2351): every   *)
(* request runs on a thread of its own and calls the one agent object      *)
(* without a lock, so execute_action, clear_history and a read of the      *)
(* action log may run while execute_task is in a step.                     *)

(* the action types execute_action knows (lines 1747-1756) *)
ActionTypes == {"mouse_click", "keyboard_type", "key_press", "mouse_move"}

(* AgentMode.execute_action (lines 1743-1758) *)
ExecuteAction(type, detail, raises) ==
    /\ calls < MaxCalls
    /\ calls' = calls + 1
    /\ IF type \in ActionTypes
       THEN \E r \in {Execute(type, detail, raises, permissions, action_history)} :
               /\ call_result' = [op |-> type, arg |-> detail, raises |-> raises,
                                  limit |-> 0, success |-> r.success,
                                  error |-> r.error, action |-> r.action]
               /\ action_history' = r.history
               /\ os_calls' = os_calls + r.os
       ELSE /\ call_result' = [op |-> type, arg |-> detail, raises |-> raises,
                               limit |-> 0, success |-> FALSE,
                               error |-> "Unknown action type: " \o type,
                               action |-> <<>>]
            /\ UNCHANGED <<action_history, os_calls>>
    /\ last_op' = "execute_action"
    /\ UNCHANGED <<permissions, cancel_requested, current_model, overlay, screenshots>>
    /\ UNCHANGED <<taskVars, step_ops, cleanup, guardVars, parseVars, detectVars,
                   startVars, streamVars, visionVars>>

(* AgentMode.clear_history (lines 1737-1741) *)
ClearHistory ==
    /\ action_history' = <<>>
    /\ last_op' = "clear_history"
    /\ UNCHANGED <<permissions, cancel_requested, current_model, overlay, screenshots>>
    /\ UNCHANGED <<taskVars, step_ops, os_calls, cleanup, unitVars>>

(* history[-limit:] *)
LastEntries(history, limit) ==
    IF limit = 0 THEN history
    ELSE IF limit > 0
    THEN SubSeq(history, Max(1, Len(history) - limit + 1), Len(history))
    ELSE SubSeq(history, Min(0 - limit, Len(history)) + 1, Len(history))

(* TaskExecutor.get_action_history (lines 619-621) *)
GetActionHistory(limit) ==
    /\ calls < MaxCalls
    /\ calls' = calls + 1
    /\ call_result' = [op |-> "get_action_history", arg |-> "", raises |-> FALSE,
                       limit |-> limit, success |-> TRUE, error |-> "",
                       action |-> LastEntries(action_history, limit)]
    /\ last_op' = "get_action_history"
    /\ UNCHANGED <<agentVars, taskVars, step_ops, os_calls, cleanup, guardVars, parseVars,
                   detectVars, startVars, streamVars, visionVars>>

(* the task that runs while the other requests arrive *)
WebTasks == {"type_a"}

(* the action types the other requests ask for; scroll is not one that     *)
(* execute_action knows                                                     *)
RequestedTypes == {"mouse_click", "keyboard_type", "scroll"}

Limits == {0, 1, 50}

NextWeb ==
    \/ \E m \in Models : SetModel(m, TRUE)
    \/ \E name \in WebTasks : ExecuteTask(TRUE, <<name>>)
    \/ TaskReset
    \/ StepBegin(TRUE)
    \/ Request("ok", "scripted")
    \/ StreamLine("scripted", FALSE)
    \/ ProcessResponse
    \/ \E type \in RequestedTypes, raises \in BOOLEAN : ExecuteAction(type, "b", raises)
    \/ ClearHistory
    \/ \E limit \in Limits : GetActionHistory(limit)

SpecWeb == Init /\ [][NextWeb]_vars

-----------------------------------------------------------------------------
(* The executor on its own: direct calls of its methods *)

(* names a caller may pass to set_permission and request_permission *)
CapabilityNames == Capabilities \cup {"clipboard"}

(* TaskExecutor.set_permission *)
ExecSetPermission(action_type, granted) ==
    /\ permissions' = set_permission(permissions, action_type, granted)
    /\ last_op' = "set_permission"
    /\ UNCHANGED <<action_history, cancel_requested, current_model, overlay, screenshots>>
    /\ UNCHANGED <<taskVars, step_ops, os_calls, cleanup, unitVars>>

(* TaskExecutor.request_permission *)
ExecRequestPermission(action_type) ==
    /\ calls < MaxCalls
    /\ calls' = calls + 1
    /\ call_result' = [op |-> "request_permission", arg |-> action_type,
                       raises |-> FALSE, limit |-> 0,
                       success |-> request_permission(permissions, action_type),
                       error |-> action_type, action |-> <<>>]
    /\ last_op' = "request_permission"
    /\ UNCHANGED <<agentVars, taskVars, step_ops, os_calls, cleanup, guardVars, parseVars,
                   detectVars, startVars, streamVars, visionVars>>

(* TaskExecutor.execute_* and open_application *)
ExecCall(prim, detail, raises) ==
    /\ calls < MaxCalls
    /\ calls' = calls + 1
    /\ \E r \in {Execute(prim, detail, raises, permissions, action_history)} :
          /\ call_result' = [op |-> prim, arg |-> detail, raises |-> raises,
                             limit |-> 0, success |-> r.success, error |-> r.error,
                             action |-> r.action]
          /\ action_history' = r.history
          /\ os_calls' = os_calls + r.os
    /\ last_op' = "execute"
    /\ UNCHANGED <<permissions, cancel_requested, current_model, overlay, screenshots>>
    /\ UNCHANGED <<taskVars, step_ops, cleanup, guardVars, parseVars, detectVars,
                   startVars, streamVars, visionVars>>

(* the arguments of the calls: a short one, and for typed text a long one *)
Details(prim) == IF prim = "keyboard_type" THEN {"a", LONG_TEXT} ELSE {"a"}

NextExec ==
    \/ \E c \in CapabilityNames, g \in BOOLEAN : ExecSetPermission(c, g)
    \/ \E c \in CapabilityNames : ExecRequestPermission(c)
    \/ \E prim \in Primitives, raises \in BOOLEAN :
          \E detail \in Details(prim) : ExecCall(prim, detail, raises)

SpecExec == Init /\ [][NextExec]_vars

-----------------------------------------------------------------------------
(* The loop guard on its own: a run of steps with given signatures *)

GuardInputs ==
    {<<"wait", "{}">>, <<"keyboard_type", "text:a">>, <<"keyboard_type", "text:b">>,
     <<"open_app", "app:notepad">>}

(* pairs of steps that differ in the tag, in the salient parameter or in   *)
(* another parameter                                                        *)
PairInputs ==
    {<<"mouse_click", "pos:1">>, <<"mouse_click", "pos:2">>,
     <<"key_press", "keys:ctrl+c">>, <<"key_press", "text:a">>,
     <<"key", "text:press_a">>, <<"open_app", "app:notepad">>,
     <<"open_app", "text:notepad">>, <<"open_app", "{}">>}

InitGuard ==
    /\ InitAgent /\ InitTask /\ InitGhost
    /\ InitExec /\ InitNoParse /\ InitDetector /\ InitNoStart /\ InitNoStream /\ InitNoVision
    /\ guard_in \in UNION { [1..n -> GuardInputs] : n \in 1..MaxSigs }
                        \cup [1..2 -> PairInputs]
    /\ guard_out = <<>>

(* lines 1369-1389 for the next step of the run; the task ends on abort *)
GuardStep ==
    /\ Len(guard_out) < Len(guard_in)
    /\ IF guard_out = <<>> THEN TRUE ELSE ~guard_out[Len(guard_out)].abort
    /\ \E g \in {LoopGuard(CurrentAction(guard_in[Len(guard_out) + 1][1],
                                         guard_in[Len(guard_out) + 1][2]),
                           last_action, repeat_count)} :
          /\ last_action' = g.last_action
          /\ repeat_count' = g.repeat_count
          /\ guard_out' = Append(guard_out, [count |-> g.repeat_count, abort |-> g.abort])
    /\ last_op' = "loop_guard"
    /\ UNCHANGED <<agentVars, step_ops, os_calls, cleanup, execVars, guard_in,
                   parseVars, detectVars, startVars, streamVars, visionVars>>
    /\ UNCHANGED <<pc, auto_execute, step, steps_completed, execution_log,
                   task_context, lines_processed, response_text, situation,
                   script, result, outcome>>

NextGuard == GuardStep

SpecGuard == InitGuard /\ [][NextGuard]_vars

-----------------------------------------------------------------------------
(* The parser on its own: response texts built from reasoning and one JSON *)
(* object whose string values hold braces, fences and escapes              *)

(* what a string literal holds: a letter, a brace, a fence, an escaped    *)
(* quote, an escaped backslash                                              *)
Units ==
    {<<PROSE>>, <<LB>>, <<RB>>, <<FENCE_CLOSE>>, <<BACKSLASH, QUOTE>>,
     <<BACKSLASH, BACKSLASH>>}

(* the string contents of at most n units *)
RECURSIVE Bodies(_)
Bodies(n) ==
    IF n = 0 THEN {<<>>}
    ELSE Bodies(n - 1) \cup { b \o u : b \in Bodies(n - 1), u \in Units }

(* {"note": "...", "action": "wait"} and {"note": {"note": "..."}, "action": "wait"} *)
Objects ==
    { Obj(<<KEYC, QUOTE>> \o b \o <<QUOTE, <<"action", "wait">>>>) : b \in Bodies(MaxStr) }
    \cup { Obj(<<KEYC, LB, KEYC, QUOTE>> \o b \o <<QUOTE, RB, <<"action", "wait">>>>) :
             b \in Bodies(MaxStr) }

(* reasoning before and after the object, with and without braces *)
Prefixes == {<<>>, <<PROSE, WS>>, <<PROSE, LB, PROSE, RB, WS>>}

Suffixes == {<<>>, <<WS, PROSE>>, <<PROSE, LB, PROSE, RB>>, <<WS, RB>>}

Shapes == {"fenced", "bare", "unclosed", "none"}

(* the response text of an input *)
InputText(in) ==
    CASE in.shape = "fenced" ->
           in.prefix \o <<FENCE_OPEN, WS>> \o in.object \o <<WS, FENCE_CLOSE>> \o in.suffix
      [] in.shape = "bare" -> in.prefix \o in.object \o in.suffix
      [] in.shape = "unclosed" ->
           in.prefix \o SubSeq(in.object, 1, Len(in.object) - 1) \o in.suffix
      [] in.shape = "none" -> in.prefix \o in.suffix

InitParse ==
    /\ InitAgent /\ InitTask /\ InitGhost
    /\ InitExec /\ InitNoGuard /\ InitDetector /\ InitNoStart /\ InitNoStream /\ InitNoVision
    /\ parse_in \in [shape : Shapes, prefix : Prefixes, object : Objects, suffix : Suffixes]
    /\ parse_out = NoParse

(* lines 1279-1357 on the text: strip, candidate, json.loads *)
Parse ==
    /\ ~parse_out.done
    /\ \E ex \in {ExtractJson(Strip(InputText(parse_in)))} :
          parse_out' = [done |-> TRUE, found |-> ex.found, text |-> ex.text,
                        ok |-> ex.found /\ JsonLoads(ex.text).ok]
    /\ last_op' = "parse"
    /\ UNCHANGED <<agentVars, taskVars, step_ops, os_calls, cleanup>>
    /\ UNCHANGED <<execVars, guardVars, parse_in, detectVars, startVars, streamVars, visionVars>>

NextParse == Parse

SpecParse == InitParse /\ [][NextParse]_vars

-----------------------------------------------------------------------------
(* The element detector on its own: queries and lookups on screenshots     *)

ElementNames == { DetectionName(d) : d \in DetectorNames }

(* no query, queries that match no, one or two keyword sets, and the       *)
(* element names                                                            *)
Queries ==
    {<<>>, <<"Start">>, <<"Start", "menu">>, <<"browser">>, <<"search", "browser">>,
     <<"folder", "search">>}
    \cup ElementNames

LookupNames == {DetectionName("start"), DetectionName("searchbar"), <<"Start", "menu">>}

(* a screenshot shows no icon, the Start button or the search bar *)
Shots ==
    { Shot(shows, layout) :
        shows \in {{}, {"start"}, {"searchbar"}}, layout \in 1..MaxLayouts }

(* UIElementDetector.__init__: a detector whose asset is missing, or whose *)
(* constructor raises, stays None                                           *)
InitDetect ==
    /\ InitAgent /\ InitTask /\ InitGhost
    /\ InitExec /\ InitNoGuard /\ InitNoParse /\ InitNoStart /\ InitNoStream /\ InitNoVision
    /\ detectors \in [DetectorNames -> BOOLEAN]
    /\ detected_elements = NoElements
    /\ detect_out = NoDetect

(* a call of detect_elements with a new screenshot *)
DetectElementsCall(shot, query) ==
    /\ \E r \in {detect_elements(shot, query, detectors, detected_elements)} :
          /\ detected_elements' = r.cache
          /\ detect_out' = [op |-> "detect_elements", query |-> query, given |-> shot,
                            elements |-> r.elements, tried |-> r.tried, click |-> <<>>]
    /\ last_op' = "detect_elements"
    /\ UNCHANGED <<agentVars, taskVars, step_ops, os_calls, cleanup, detectors>>
    /\ UNCHANGED <<execVars, guardVars, parseVars, startVars, streamVars, visionVars>>

(* a call of find_element, with a new screenshot or without one *)
FindElementCall(name, shot) ==
    /\ \E r \in {find_element(name, shot, detectors, detected_elements)} :
          /\ detected_elements' = r.cache
          /\ detect_out' = [op |-> "find_element", query |-> name, given |-> shot,
                            elements |-> r.elements, tried |-> r.tried, click |-> <<>>]
    /\ last_op' = "find_element"
    /\ UNCHANGED <<agentVars, taskVars, step_ops, os_calls, cleanup, detectors>>
    /\ UNCHANGED <<execVars, guardVars, parseVars, startVars, streamVars, visionVars>>

(* a call of get_click_coordinates *)
GetClickCoordinatesCall(name, shot) ==
    /\ \E r \in {find_element(name, shot, detectors, detected_elements)} :
          /\ detected_elements' = r.cache
          /\ detect_out' = [op |-> "get_click_coordinates", query |-> name,
                            given |-> shot, elements |-> r.elements, tried |-> r.tried,
                            click |-> get_click_coordinates(name, shot, detectors,
                                                            detected_elements)]
    /\ last_op' = "get_click_coordinates"
    /\ UNCHANGED <<agentVars, taskVars, step_ops, os_calls, cleanup, detectors>>
    /\ UNCHANGED <<execVars, guardVars, parseVars, startVars, streamVars, visionVars>>

NextDetect ==
    \/ \E shot \in Shots, query \in Queries : DetectElementsCall(shot, query)
    \/ \E name \in LookupNames, shot \in Shots \cup {NoShot} : FindElementCall(name, shot)
    \/ \E name \in LookupNames, shot \in Shots \cup {NoShot} :
          GetClickCoordinatesCall(name, shot)

SpecDetect == InitDetect /\ [][NextDetect]_vars

-----------------------------------------------------------------------------
(* The Start button detector on its own: one image, one call of detect *)

Confidences == 0..100

InitStart ==
    /\ InitAgent /\ InitTask /\ InitGhost
    /\ InitExec /\ InitNoGuard /\ InitNoParse /\ InitDetector /\ InitNoStream /\ InitNoVision
    /\ start_in \in { Measure(best, e, c, s) :
                        best \in Confidences \cup {NO_MATCH}, e \in BOOLEAN,
                        c \in BOOLEAN, s \in BOOLEAN }
    /\ start_out = NoStart

StartDetectCall ==
    /\ ~start_out.done
    /\ start_out' = StartDetect(start_in)
    /\ last_op' = "start_detect"
    /\ UNCHANGED <<agentVars, taskVars, step_ops, os_calls, cleanup, start_in>>
    /\ UNCHANGED <<execVars, guardVars, parseVars, detectVars, streamVars, visionVars>>

NextStart == StartDetectCall

SpecStart == InitStart /\ [][NextStart]_vars

-----------------------------------------------------------------------------
(* The template matchers on their own: one image, one call of each *)

MaxPeaks == 2

TemplateSides == {16, 40}

Regions == {<<20, 20>>, <<30, 30>>, <<44, 100>>, <<100, 100>>}

Baselines == {0, 20}

PeakScores == {48, 60}

(* the combinations where a peak may sit: the ends of the ladder and the   *)
(* scales around the original size                                          *)
PeakCombinations == { k \in Combinations : ScaleOf(k) \in {60, 100, 110, 150} }

(* up to MaxPeaks peaks at combinations of increasing index *)
PeakSets ==
    { p \in UNION { [1..n -> PeakCombinations \X PeakScores] : n \in 0..MaxPeaks } :
        \A i \in 1..(Len(p) - 1) : p[i][1] < p[i + 1][1] }

InitMatch ==
    /\ InitAgent /\ InitTask /\ InitGhost
    /\ InitExec /\ InitNoGuard /\ InitNoParse /\ InitDetector /\ InitNoStart
    /\ InitNoStream
    /\ match_in \in { MatchInput(t, r[1], r[2], b, p) :
                        t \in TemplateSides, r \in Regions, b \in Baselines,
                        p \in PeakSets }
    /\ match_out = NoMatch
    /\ shape_in = NoPatch
    /\ shape_out = NoShape

StartMatchCall ==
    /\ ~match_out.start_done
    /\ match_out' = [match_out EXCEPT !.start_done = TRUE,
                                      !.start = start_run_template_matching(match_in)]
    /\ last_op' = "start_run_template_matching"
    /\ UNCHANGED <<agentVars, taskVars, step_ops, os_calls, cleanup>>
    /\ UNCHANGED <<execVars, guardVars, parseVars, detectVars, startVars, streamVars>>
    /\ UNCHANGED <<match_in, shape_in, shape_out>>

GenericMatchCall ==
    /\ ~match_out.generic_done
    /\ match_out' = [match_out EXCEPT !.generic_done = TRUE,
                                      !.generic = generic_run_template_matching(match_in)]
    /\ last_op' = "generic_run_template_matching"
    /\ UNCHANGED <<agentVars, taskVars, step_ops, os_calls, cleanup>>
    /\ UNCHANGED <<execVars, guardVars, parseVars, detectVars, startVars, streamVars>>
    /\ UNCHANGED <<match_in, shape_in, shape_out>>

NextMatch == StartMatchCall \/ GenericMatchCall

SpecMatch == InitMatch /\ [][NextMatch]_vars

-----------------------------------------------------------------------------
(* The shape check on its own: one patch, one call *)

(* contours a 100 x 100 patch may show: four squares of a grid, a fifth in *)
(* the top row, a speck, a blob that fills the patch and a bar              *)
ContourPool ==
    <<Blob(10, 10, 20, 20, 400), Blob(50, 10, 20, 20, 380),
      Blob(78, 10, 20, 20, 400), Blob(10, 50, 20, 20, 400),
      Blob(50, 50, 20, 20, 390), Blob(40, 40, 5, 5, 25),
      Blob(0, 0, 60, 60, 3600), Blob(10, 85, 60, 10, 600)>>

RECURSIVE Picked(_, _)
Picked(pool, keep) ==
    IF pool = <<>> THEN <<>>
    ELSE Picked(SubSeq(pool, 1, Len(pool) - 1), keep)
         \o (IF Len(pool) \in keep THEN <<pool[Len(pool)]>> ELSE <<>>)

Patches ==
    {NoPatch} \cup { Patch(100, 100, Picked(ContourPool, keep)) :
                       keep \in SUBSET DOMAIN ContourPool }

InitShape ==
    /\ InitAgent /\ InitTask /\ InitGhost
    /\ InitExec /\ InitNoGuard /\ InitNoParse /\ InitDetector /\ InitNoStart
    /\ InitNoStream
    /\ match_in = NoMatchInput
    /\ match_out = NoMatch
    /\ shape_in \in Patches
    /\ shape_out = NoShape

ShapeCheckCall ==
    /\ ~shape_out.done
    /\ shape_out' = [done |-> TRUE, accepted |-> passes_shape_check(shape_in)]
    /\ last_op' = "passes_shape_check"
    /\ UNCHANGED <<agentVars, taskVars, step_ops, os_calls, cleanup>>
    /\ UNCHANGED <<execVars, guardVars, parseVars, detectVars, startVars, streamVars>>
    /\ UNCHANGED <<match_in, match_out, shape_in>>

NextShape == ShapeCheckCall

SpecShape == InitShape /\ [][NextShape]_vars

-----------------------------------------------------------------------------
(* The loop over a streamed response on its own *)

TokenA == <<PROSE>>

TokenB == <<LB>>

TokenT == <<WS>>

StreamLines ==
    { ChunkLine(Chunk(r, t, d)) :
        r \in {<<>>, TokenA, TokenB}, t \in {<<>>, TokenT}, d \in BOOLEAN }
    \cup {InvalidLine, EmptyLine}

InitStream ==
    /\ InitAgent /\ InitTask /\ InitGhost
    /\ InitExec /\ InitNoGuard /\ InitNoParse /\ InitDetector /\ InitNoStart
    /\ InitNoVision
    /\ stream_in \in UNION { [1..n -> StreamLines] : n \in 0..MaxLines }
    /\ stream_out = NoStream

(* one iteration of the loop of lines 1216-1260 *)
ReadLine ==
    /\ ~stream_out.done
    /\ stream_out.read < Len(stream_in)
    /\ \E r \in {LineStep(stream_out.text, stream_in[stream_out.read + 1])} :
          stream_out' = [read |-> stream_out.read + 1, text |-> r.text, done |-> r.stop]
    /\ last_op' = "read_line"
    /\ UNCHANGED <<agentVars, taskVars, step_ops, os_calls, cleanup, stream_in>>
    /\ UNCHANGED <<execVars, guardVars, parseVars, detectVars, startVars, visionVars>>

(* iter_lines() is exhausted: the loop ends without a done chunk *)
EndOfStream ==
    /\ ~stream_out.done
    /\ stream_out.read = Len(stream_in)
    /\ stream_out' = [stream_out EXCEPT !.done = TRUE]
    /\ last_op' = "end_of_stream"
    /\ UNCHANGED <<agentVars, taskVars, step_ops, os_calls, cleanup, stream_in>>
    /\ UNCHANGED <<execVars, guardVars, parseVars, detectVars, startVars, visionVars>>

NextStream == ReadLine \/ EndOfStream

SpecStream == InitStream /\ [][NextStream]_vars

-----------------------------------------------------------------------------
(* Properties of the controller (Spec) *)

(* C1: the permission map changes only through the owner's set_permission  *)
(* and set_permissions calls; no capability goes from denied to granted in *)
(* a transition made by execute_task.                                       *)
C1_GrantsOnlyByOwner ==
    [][\A c \in Capabilities :
          (~request_permission(permissions, c) /\ request_permission(permissions', c))
              => last_op' \in {"set_permission", "set_permissions"}]_vars

(* C3: a step that is about to begin while the cancel flag is set ends the *)
(* task Cancelled with the log accumulated so far, and performs no         *)
(* capture, inference, executor or detector operation.                     *)
C3_CancelAtStepStart ==
    [][(pc = "step" /\ pc' # "step" /\ step < max_steps /\ cancel_requested)
          => /\ pc' = "done"
             /\ outcome' = "cancelled"
             /\ result' = CancelledResult(steps_completed)
             /\ result'.has_log
             /\ SubSeq(execution_log', 1, Len(execution_log)) = execution_log
             /\ step_ops' = NoOps
             /\ os_calls' = os_calls
             /\ action_history' = action_history
             /\ screenshots' <= screenshots]_vars

C3_Witness ==
    /\ pc = "done"
    /\ outcome = "cancelled"
    /\ step > 0
    /\ steps_completed > 0
    /\ result = CancelledResult(steps_completed)

(* C4: a cancel flag observed while the response is streamed ends the task *)
(* Cancelled, and no action is dispatched from the partial text.            *)
C4_CancelDuringStream ==
    [][(pc = "process" /\ pc' # "process" /\ step_ops.cancel_seen)
          => /\ outcome' = "cancelled"
             /\ step_ops'.exec = step_ops.exec
             /\ step_ops'.detect = step_ops.detect
             /\ os_calls' = os_calls]_vars

(* C5: a response with no JSON object, or a malformed one, ends the task   *)
(* Failed: the result has success = false.                                  *)
C5_ParseFailureFails ==
    (pc = "done" /\ outcome \in {"no_json", "malformed"})
        => (result.success = FALSE /\ result.has_log)

(* C6: a transport failure ends the task Failed: the result has            *)
(* success = false.                                                         *)
C6_TransportFailureFails ==
    (pc = "done" /\ outcome \in {"transport", "stream_error"})
        => (result.success = FALSE /\ result.has_log)

(* C7: when the loop guard signals abort the task ends with a failure      *)
(* result (success = false) that carries the log.                           *)
C7_LoopAbortFails ==
    (pc = "done" /\ outcome = "loop_abort")
        => (result.success = FALSE /\ result.has_log)

(* the fields of the plan in the response that is about to be processed *)
StepFields == ExtractFields(JsonLoads(ExtractJson(Strip(response_text)).text).plan)

StepParsed ==
    /\ Strip(response_text) # <<>>
    /\ ExtractJson(Strip(response_text)).found
    /\ JsonLoads(ExtractJson(Strip(response_text)).text).ok
    /\ ~StepFields.raises

StepAsksCompletion ==
    /\ StepParsed
    /\ (StepFields.action_type = "complete" \/ StepFields.task_complete)

StepEndsCompleted ==
    /\ pc' = "done"
    /\ outcome' = "completed"
    /\ result' = CompletedResult(steps_completed)
    /\ result'.success
    /\ step_ops'.exec = step_ops.exec
    /\ step_ops'.detect = step_ops.detect
    /\ os_calls' = os_calls
    /\ action_history' = action_history

(* C9 as stated: a step whose tag is complete, or whose task_complete is   *)
(* true, ends the task Completed with success = true and performs no       *)
(* executor or detector operation.                                          *)
C9_CompletionAlways ==
    [][(pc = "process" /\ pc' # "process" /\ StepAsksCompletion)
          => StepEndsCompleted]_vars

(* the step reaches the dispatch: auto_execute is on, the parameters are   *)
(* an object and the guard does not signal abort                            *)
StepReachesDispatch ==
    /\ auto_execute
    /\ StepFields.parameters # NOT_A_DICT
    /\ ~(/\ CurrentAction(StepFields.action_type, StepFields.parameters) = last_action
         /\ repeat_count + 1 >= abort_threshold)

(* C9: a step that reaches the dispatch and whose tag is complete, or whose *)
(* task_complete is true, ends the task Completed with success = true and  *)
(* performs no executor or detector operation.                              *)
C9_CompletionAtDispatch ==
    [][(pc = "process" /\ pc' # "process" /\ StepAsksCompletion /\ StepReachesDispatch)
          => StepEndsCompleted]_vars

C9_Witness ==
    /\ pc = "done"
    /\ outcome = "completed"
    /\ step > 0
    /\ MemberValue(situation.members, "action") = "mouse_click"
    /\ MemberValue(situation.members, "task_complete") = "true"
    /\ step_ops.exec = 0
    /\ result.success

C12_StepLimit ==
    [][/\ step' <= max_steps
       /\ pc' \in {"request", "stream", "process"} => step' < max_steps
       /\ (pc = "step" /\ pc' # "step" /\ step = max_steps)
             => /\ pc' = "done"
                /\ outcome' = "step_limit"
                /\ result' = AfterLoopResult(steps_completed)
                /\ result'.success
                /\ result'.has_log
                /\ result'.message = "Task execution stopped after 15 steps"
                /\ execution_log' = execution_log
                /\ step_ops' = step_ops
                /\ os_calls' = os_calls
       /\ outcome' = "step_limit" => step' = max_steps]_vars

C12_Witness ==
    /\ pc = "done"
    /\ outcome = "step_limit"
    /\ Len(task_context) = max_steps
    /\ steps_completed > 0
    /\ result.steps_completed = steps_completed
    /\ result.success

(* the step calls the detector and the detector finds nothing *)
StepDetectsNothing ==
    /\ StepParsed
    /\ StepReachesDispatch
    /\ ~StepFields.task_complete
    /\ StepFields.action_type = "detect_ui_element"
    /\ Params(StepFields.parameters).element_name # ABSENT
    /\ ~situation.hit

(* C15: a detect_ui_element step whose detector finds nothing is not       *)
(* fatal: it is logged as not found, no mouse move is issued,              *)
(* steps_completed is unchanged and the controller goes to the next step.  *)
C15_DetectionMissIsNoOp ==
    [][(pc = "process" /\ pc' # "process" /\ StepDetectsNothing)
          => /\ pc' = "step"
             /\ step' = step + 1
             /\ outcome' = "none"
             /\ result' = NoResult
             /\ steps_completed' = steps_completed
             /\ step_ops'.detect = step_ops.detect + 1
             /\ step_ops'.exec = step_ops.exec
             /\ os_calls' = os_calls
             /\ action_history' = action_history
             /\ execution_log'[Len(execution_log')] =
                   <<"not_found", step + 1, Params(StepFields.parameters).element_name>>]_vars

C15_Witness ==
    /\ pc = "step"
    /\ step = 2
    /\ script = <<"click", "detect_miss">>
    /\ execution_log[Len(execution_log)] = <<"not_found", 2, "start button">>
    /\ steps_completed = 1
    /\ os_calls = 1

(* C16: the steps_completed value reported at the end of a task equals    *)
(* the number of steps whose action produced an OS side effect, which is   *)
(* the number of entries the executor added to its action log.             *)
C16_CountsSideEffectingSteps ==
    (pc = "done" /\ result.steps_completed # -1)
        => result.steps_completed = Len(action_history)

(* the entries a step wrote to the log *)
EntriesOf(k) == { i \in 1..Len(execution_log) : execution_log[i][2] = k }

IsStepLine(e) == e[1] = "step"

(* the entries written inside a step *)
IsNumbered(e) == e[2] >= 1

FatalOutcomes ==
    {"capture_failed", "transport", "stream_error", "empty", "no_json",
     "malformed", "loop_abort", "exception"}

(* C11: every fatal outcome of execute_task returns a result that carries  *)
(* a message and the execution log accumulated so far.                     *)
C11_FatalResultCarriesLog ==
    (pc = "done" /\ outcome \in FatalOutcomes)
        => /\ result.has_log
           /\ (result.error # "" \/ result.message # "")

-----------------------------------------------------------------------------
(* Properties of the dispatch over the action table (SpecActions) *)

(* the tags that have a branch in the dispatch *)
ActionTable == ExecutorTags \cup {"complete", "detect_ui_element", "wait"}

StepHasUnknownTag == StepParsed /\ StepFields.action_type \notin ActionTable

StepIsUnknownNoOp ==
    /\ pc' = "step"
    /\ step' = step + 1
    /\ steps_completed' = steps_completed
    /\ action_history' = action_history
    /\ os_calls' = os_calls
    /\ step_ops'.exec = step_ops.exec
    /\ step_ops'.detect = step_ops.detect
    /\ execution_log'[Len(execution_log')] = <<"unknown", step + 1, StepFields.action_type>>

(* C13 as stated: a step whose tag is not in the action table is logged as *)
(* unknown, has no side effect, and the controller continues with the next *)
(* step.                                                                    *)
C13_UnknownAlwaysContinues ==
    [][(pc = "process" /\ pc' # "process" /\ StepHasUnknownTag)
          => StepIsUnknownNoOp]_vars

(* C13: a step that reaches the dispatch, does not set task_complete and   *)
(* whose tag is not in the action table (an empty or absent tag included)  *)
(* is logged as unknown, has no side effect, and the controller continues  *)
(* with the next step.                                                      *)
C13_UnknownAtDispatch ==
    [][(/\ pc = "process" /\ pc' # "process"
        /\ StepHasUnknownTag
        /\ StepReachesDispatch
        /\ ~StepFields.task_complete)
          => StepIsUnknownNoOp]_vars

C13_Witness ==
    /\ script = <<"no_tag">>
    /\ pc = "step"
    /\ step = 2
    /\ steps_completed = 0
    /\ action_history = <<>>
    /\ execution_log[Len(execution_log)] = <<"unknown", 2, "">>

(* the step calls the executor method of its tag *)
StepCallsExecutor ==
    /\ StepParsed
    /\ StepReachesDispatch
    /\ ~StepFields.task_complete
    /\ StepFields.action_type \in ExecutorTags
    /\ ~(StepFields.action_type = "hotkey" /\ Params(StepFields.parameters).keys = ABSENT)
    /\ ~(StepFields.action_type = "open_app"
            /\ Get(NoParams, Params(StepFields.parameters).app, "") = "")

StepCapability == RequiredCapability(TagPrimitive(StepFields.action_type))

(* C14: an executor action dispatched by a step and denied for lack of     *)
(* permission is recorded in the log and neither fails nor stops the task: *)
(* steps_completed is unchanged and the next step follows; with the        *)
(* capability granted the same action succeeds.                            *)
C14_DenialIsNotFatal ==
    [][(pc = "process" /\ pc' # "process" /\ StepCallsExecutor)
          => IF ~request_permission(permissions, StepCapability)
             THEN /\ pc' = "step"
                  /\ step' = step + 1
                  /\ outcome' = "none"
                  /\ result' = NoResult
                  /\ steps_completed' = steps_completed
                  /\ action_history' = action_history
                  /\ os_calls' = os_calls
                  /\ execution_log'[Len(execution_log')] =
                        <<"error", step + 1, "Permission denied: " \o StepCapability>>
             ELSE ~situation.raises
                    => /\ pc' = "step"
                       /\ steps_completed' = steps_completed + 1
                       /\ Len(action_history') = Len(action_history) + 1
                       /\ os_calls' = os_calls + 1]_vars

C14_Witness ==
    /\ script = <<"mouse_click">>
    /\ pc = "step"
    /\ Len(task_context) = 2
    /\ task_context[1] = <<1, "mouse_click", "Failed">>
    /\ task_context[2] = <<2, "mouse_click", "Clicked">>
    /\ steps_completed = 1
    /\ Len(action_history) = 1

-----------------------------------------------------------------------------
(* Properties of the executor (SpecExec) *)

(* C2: a primitive called while its capability is not granted returns a    *)
(* failure that names the capability, makes no OS call and leaves the      *)
(* action log unchanged; a capability that was never set is not granted.   *)
C2_DeniedCallHasNoEffect ==
    [][(calls' = calls + 1)
          => /\ (/\ call_result'.op \in Primitives
                 /\ ~(/\ RequiredCapability(call_result'.op) \in DOMAIN permissions
                      /\ permissions[RequiredCapability(call_result'.op)]))
                    => /\ call_result'.success = FALSE
                       /\ call_result'.error =
                             "Permission denied: " \o RequiredCapability(call_result'.op)
                       /\ os_calls' = os_calls
                       /\ action_history' = action_history
             /\ (/\ call_result'.op = "request_permission"
                 /\ call_result'.error \notin DOMAIN permissions)
                    => call_result'.success = FALSE]_vars

C2_Witness ==
    /\ calls = 2
    /\ call_result.op = "save_file"
    /\ call_result.error = "Permission denied: file_operations"
    /\ ~call_result.success
    /\ Len(action_history) = 1
    /\ os_calls = 1
    /\ permissions["mouse_click"]

-----------------------------------------------------------------------------
(* Properties of the loop guard (SpecGuard) *)

(* the number of steps immediately before step i with the signature of i *)
RECURSIVE RunBefore(_, _)
RunBefore(sigs, i) ==
    IF i > 1 /\ CurrentAction(sigs[i][1], sigs[i][2]) = CurrentAction(sigs[i-1][1], sigs[i-1][2])
    THEN RunBefore(sigs, i - 1) + 1
    ELSE 0

(* C8: over a run of steps with the same signature the repeat count is     *)
(* 0, 1, 2, 3, 4 for the first five, abort is signalled exactly when the   *)
(* count reaches 5, and a step with a different signature resets it to 0.  *)
C8_RepeatCount ==
    \A i \in 1..Len(guard_out) :
        /\ guard_out[i].count = RunBefore(guard_in, i)
        /\ guard_out[i].abort = (RunBefore(guard_in, i) >= 5)
        /\ i = Len(guard_out) => repeat_count = guard_out[i].count

C8_Witness ==
    /\ Len(guard_out) = 7
    /\ guard_out[1].count = 0
    /\ guard_out[2].count = 0
    /\ guard_out[6].count = 4
    /\ guard_out[7].count = 5
    /\ guard_out[7].abort

-----------------------------------------------------------------------------
(* Properties of the parser (SpecParse) *)

(* C18: for a text that holds a fenced block tagged as JSON the candidate  *)
(* is exactly the contents of the block, whatever surrounds it and         *)
(* whatever its string values hold.                                         *)
C18_FencedBlockVerbatim ==
    (parse_out.done /\ parse_in.shape = "fenced")
        => (parse_out.found /\ parse_out.text = parse_in.object)

NoBraceIn(t) == \A i \in 1..Len(t) : t[i] \notin {LB, RB}

(* C19: without a fenced block the walk from the first brace ends at the   *)
(* brace that closes that object: braces in string literals do not count,  *)
(* an escaped quote does not end a string, and an object that is never     *)
(* closed gives no candidate.                                               *)
C19_WalkClosesObject ==
    (parse_out.done /\ parse_in.shape # "fenced")
        => /\ (parse_in.shape = "bare" /\ NoBraceIn(parse_in.prefix))
                 => (parse_out.found /\ parse_out.text = parse_in.object)
           /\ (parse_in.shape = "bare" /\ ~NoBraceIn(parse_in.prefix))
                 => (parse_out.found /\ parse_out.text = <<LB, PROSE, RB>>)
           /\ (/\ parse_in.shape = "unclosed"
               /\ NoBraceIn(parse_in.prefix)
               /\ NoBraceIn(parse_in.suffix))
                 => ~parse_out.found
           /\ (parse_in.shape = "none" /\ NoBraceIn(parse_in.prefix \o parse_in.suffix))
                 => ~parse_out.found

C19_Witness ==
    /\ parse_out.done
    /\ parse_in.shape = "bare"
    /\ parse_in.prefix = <<PROSE, WS>>
    /\ parse_in.object =
          Obj(<<KEYC, QUOTE, RB, BACKSLASH, QUOTE, QUOTE, <<"action", "wait">>>>)
    /\ parse_in.suffix = <<PROSE, LB, PROSE, RB>>
    /\ parse_out.text = parse_in.object
    /\ parse_out.ok

(* C20: from a text that is reasoning before and after one well-formed     *)
(* JSON object the parser extracts that object; for a text without such an *)
(* object it reports no JSON or malformed JSON.                             *)
C20_ExtractsTheObject ==
    parse_out.done
        => /\ parse_in.shape \in {"fenced", "bare"}
                 => (parse_out.found /\ parse_out.ok /\ parse_out.text = parse_in.object)
           /\ (parse_in.shape \in {"unclosed", "none"} /\ NoBraceIn(parse_in.suffix))
                 => (~parse_out.found \/ ~parse_out.ok)

-----------------------------------------------------------------------------
(* Properties of the element detector (SpecDetect) *)

(* index in DetectorOrder of the first keyword set the lower-cased query   *)
(* matches, 0 when it matches none                                          *)
FirstMatching(query) ==
    LET m == { i \in DOMAIN DetectorOrder :
                 AnyKeyword(DetectorOrder[i], LowerText(query)) }
    IN IF m = {} THEN 0 ELSE Least(m)

(* C21: detect_elements routes a query to the detector of the first        *)
(* keyword set the lower-cased query matches and to no other: no other     *)
(* detector is run, and when that detector is unavailable or finds nothing *)
(* the result is empty.                                                     *)
C21_FirstMatchOnly ==
    detect_out.op = "detect_elements"
        => LET i == FirstMatching(detect_out.query) IN
           IF i = 0
           THEN detect_out.tried = {} /\ detect_out.elements = <<>>
           ELSE /\ detect_out.tried \subseteq {DetectorOrder[i]}
                /\ IF detectors[DetectorOrder[i]]
                      /\ DetectorOrder[i] \in detect_out.given.shows
                   THEN detect_out.elements =
                           <<Element(DetectFromBase64(DetectorOrder[i],
                                                      detect_out.given)[1])>>
                   ELSE detect_out.elements = <<>>

(* the elements the detectors find on a screenshot *)
ElementsOn(shot) ==
    { Element(DetectFromBase64(d, shot)[1]) : d \in shot.shows }

(* C22: a lookup that is given a screenshot returns no coordinates from an *)
(* older screenshot, and after a detection or lookup that misses on the    *)
(* new screenshot the cache holds no entry for that name.                  *)
C22_NewScreenshotInvalidates ==
    (detect_out.op # "<none>" /\ detect_out.given # NoShot)
        => /\ \A i \in DOMAIN detect_out.elements :
                 detect_out.elements[i] \in ElementsOn(detect_out.given)
           /\ detect_out.click # <<>>
                 => \E e \in ElementsOn(detect_out.given) : detect_out.click = <<e.x, e.y>>
           /\ (/\ detect_out.tried # {}
               /\ detect_out.elements = <<>>)
                 => detect_out.query \notin DOMAIN detected_elements

-----------------------------------------------------------------------------
(* Properties of the Start button detector (SpecStart) *)

-----------------------------------------------------------------------------
(* Properties of the stream loop (SpecStream) *)

(* index of the first well-formed chunk with done = true, Len + 1 if none *)
FirstDone(lines) ==
    LET m == { i \in DOMAIN lines : lines[i].kind = "chunk" /\ lines[i].chunk.done }
    IN IF m = {} THEN Len(lines) + 1 ELSE Least(m)

(* the text fields of the well-formed chunks among the first n lines *)
RECURSIVE TextUpTo(_, _)
TextUpTo(lines, n) ==
    IF n = 0 THEN <<>>
    ELSE TextUpTo(lines, n - 1)
         \o (IF lines[n].kind # "chunk" THEN <<>>
             ELSE IF lines[n].chunk.response # <<>> THEN lines[n].chunk.response
             ELSE lines[n].chunk.thinking)

-----------------------------------------------------------------------------
(* Properties of the loop guard inside the task (SpecActions, SpecGuard) *)

(* C24: in a task whose steps all have the same signature at most five     *)
(* are executed: only steps with a repeat count of at most 4 reach the     *)
(* executor or the detector, and the step on which the guard signals abort *)
(* makes no executor, detector or OS call and logs no action.              *)
C24_AtMostFiveInARow ==
    [][/\ (outcome' = "loop_abort" /\ outcome # "loop_abort")
             => /\ os_calls' = os_calls
                /\ action_history' = action_history
                /\ step_ops'.exec = step_ops.exec
                /\ step_ops'.detect = step_ops.detect
       /\ (\/ step_ops'.exec > step_ops.exec
           \/ step_ops'.detect > step_ops.detect
           \/ os_calls' > os_calls)
             => (repeat_count' <= 4 /\ step <= 4)]_vars

C24_Witness ==
    /\ outcome = "loop_abort"
    /\ repeat_count = 5
    /\ os_calls = 5
    /\ Len(action_history) = 5

(* the salient parameter of a step: app if present, otherwise text,        *)
(* otherwise empty                                                          *)
Salient(parameters) ==
    LET p == Params(parameters)
    IN IF p.app # ABSENT THEN p.app ELSE IF p.text # ABSENT THEN p.text ELSE ""

(* C25: two consecutive steps count as a repetition exactly when their     *)
(* action tags are equal and their salient parameters (app if present,     *)
(* otherwise text, otherwise empty) are equal, whatever their other        *)
(* parameters are.                                                          *)
C25_RepetitionIffSameTagAndValue ==
    \A i \in 2..Len(guard_out) :
        (guard_out[i].count > 0)
            <=> /\ guard_in[i][1] = guard_in[i - 1][1]
                /\ Salient(guard_in[i][2]) = Salient(guard_in[i - 1][2])

-----------------------------------------------------------------------------
(* Properties of the agent behind the web API (SpecWeb) *)

(* C26: steps of a session never overlap: between the screen capture of a  *)
(* step and its context append nothing but that step makes an OS call or   *)
(* writes the action log, also while the web API calls execute_action on   *)
(* the session.                                                             *)
C26_StepsNeverOverlap ==
    [][(/\ pc \in {"request", "stream", "process"}
        /\ (os_calls' # os_calls \/ action_history' # action_history))
          => last_op' = "execute_task"]_vars

(* C30: the action log is append-only and ordered: no operation of the     *)
(* agent removes, changes or reorders an entry, and get_action_history     *)
(* returns the most recent limit entries in logging order.                 *)
C30_AppendOnly ==
    [][/\ Len(action_history') >= Len(action_history)
       /\ \A i \in 1..Min(Len(action_history), Len(action_history')) :
             action_history'[i] = action_history[i]
       /\ (last_op' = "get_action_history" /\ calls' = calls + 1)
             => /\ Len(call_result'.action)
                      = Min(call_result'.limit, Len(action_history))
                /\ \A i \in 1..Len(call_result'.action) :
                      call_result'.action[i]
                         = action_history[Len(action_history)
                                          - Len(call_result'.action) + i]]_vars

-----------------------------------------------------------------------------
(* Properties of the context window (Spec) *)

-----------------------------------------------------------------------------
(* Properties of a permitted executor call (SpecExec) *)

(* C29: a permitted executor call makes its OS call exactly once; when the *)
(* call succeeds exactly one entry (the action type and the argument, for  *)
(* typed text its first 50 characters) is appended to the action log and   *)
(* that entry is returned; when the OS call raises the result is a failure *)
(* and the log is unchanged.                                                *)
C29_OneEffectOneEntry ==
    [][(/\ last_op' = "execute"
        /\ calls' = calls + 1
        /\ request_permission(permissions, RequiredCapability(call_result'.op)))
          => /\ os_calls' = os_calls + 1
             /\ IF call_result'.raises
                THEN /\ ~call_result'.success
                     /\ action_history' = action_history
                ELSE /\ call_result'.success
                     /\ action_history' = Append(action_history, call_result'.action)
                     /\ call_result'.action[1] = call_result'.op
                     /\ call_result'.action[2] =
                           IF call_result'.op = "keyboard_type"
                              /\ call_result'.arg = LONG_TEXT
                           THEN FIRST_50
                           ELSE call_result'.arg]_vars

C29_Witness ==
    /\ call_result.op = "keyboard_type"
    /\ call_result.arg = LONG_TEXT
    /\ call_result.success
    /\ os_calls = 1
    /\ action_history = <<<<"keyboard_type", FIRST_50>>>>

-----------------------------------------------------------------------------
(* The fields of a parsed plan                                              *)

(* the plan the step decoded *)
StepPlan == JsonLoads(ExtractJson(Strip(response_text)).text).plan

(* C31: in a step whose reply parsed, the tag is matched without regard to  *)
(* case (COMPLETE completes the task), a missing parameters member reads as *)
(* the empty object, a missing task_complete as false, a missing reasoning  *)
(* or observation as the empty string, and the step is no parse failure.    *)
C31_OmittedFieldsDefault ==
    [][(pc = "process" /\ StepParsed /\ StepPlan.parameters # NOT_A_DICT) =>
         /\ StepPlan.action \in {"COMPLETE", "complete"} =>
               /\ StepFields.action_type = "complete"
               /\ auto_execute => outcome' = "completed" /\ result'.success
         /\ StepPlan.action = ABSENT => StepFields.action_type = ""
         /\ StepPlan.parameters = ABSENT =>
               /\ StepFields.parameters = "{}"
               /\ Params(StepFields.parameters) = NoParams
         /\ StepPlan.task_complete = ABSENT => ~StepFields.task_complete
         /\ StepPlan.reasoning = ABSENT => StepFields.reasoning = ""
         /\ StepPlan.observation = ABSENT => StepFields.observation = ""
         /\ outcome' \notin {"empty", "no_json", "malformed", "exception"}
         /\ execution_log' # execution_log
         /\ execution_log'[Len(execution_log) + 1][1] \notin
               {"empty_response", "invalid_format", "parse_error"}]_vars

(* an upper-case COMPLETE with every other member missing ended the task *)
C31_Witness ==
    /\ pc = "done"
    /\ outcome = "completed"
    /\ situation = Situation("complete_upper")
    /\ StepPlan.action = "COMPLETE"
    /\ StepPlan.parameters = ABSENT
    /\ StepPlan.task_complete = ABSENT
    /\ StepPlan.reasoning = ABSENT
    /\ StepPlan.observation = ABSENT

-----------------------------------------------------------------------------
(* The template matchers                                                    *)

(* the combinations a matcher tries on the image *)
StartTried == { k \in Combinations : ~StartSkips(match_in, k) }

GenericTried == { k \in Combinations : ~GenericSkips(match_in, k) }

(* the greatest raw score over the combinations tried *)
GreatestScore(tried) ==
    CHOOSE m \in { max_val(match_in, k) : k \in tried } :
       \A k \in tried : max_val(match_in, k) <= m

(* the combination visited first among those with the greatest score *)
FirstGreatest(tried) ==
    CHOOSE k \in tried :
       /\ max_val(match_in, k) = GreatestScore(tried)
       /\ \A j \in tried : max_val(match_in, j) = GreatestScore(tried) => k <= j

(* C32: each matcher returns the candidate of the combination with the     *)
(* greatest raw score among those tried, the one visited first when scores *)
(* are equal, provided that score reaches the matcher's threshold; the     *)
(* confidence is the raw score; a scale whose resized reference exceeds    *)
(* the region is not tried.                                                 *)
C32_FirstGreatestScore ==
    /\ match_out.start_done =>
         IF StartTried = {} THEN match_out.start = <<>>
         ELSE IF GreatestScore(StartTried) < candidate_threshold
         THEN match_out.start = <<>>
         ELSE /\ match_out.start # <<>>
              /\ match_out.start[1].loc = FirstGreatest(StartTried)
              /\ match_out.start[1].confidence = GreatestScore(StartTried)
              /\ match_out.start[1].width =
                    Rounded(match_in.template, ScaleOf(FirstGreatest(StartTried)))
    /\ match_out.generic_done =>
         IF GenericTried = {} THEN match_out.generic = <<>>
         ELSE IF GreatestScore(GenericTried) < generic_threshold
         THEN match_out.generic = <<>>
         ELSE /\ match_out.generic # <<>>
              /\ match_out.generic[1].loc = FirstGreatest(GenericTried)
              /\ match_out.generic[1].confidence = GreatestScore(GenericTried)
              /\ match_out.generic[1].width =
                    Truncated(match_in.template, ScaleOf(FirstGreatest(GenericTried)))
    /\ \A k \in Combinations :
         /\ (\/ Rounded(match_in.template, ScaleOf(k)) > match_in.roi_h
             \/ Rounded(match_in.template, ScaleOf(k)) > match_in.roi_w)
            => k \notin StartTried
         /\ (\/ Truncated(match_in.template, ScaleOf(k)) > match_in.roi_h
             \/ Truncated(match_in.template, ScaleOf(k)) > match_in.roi_w)
            => k \notin GenericTried

(* both matchers ran on an image where a scale was skipped and two         *)
(* combinations share the greatest score, and both returned the first      *)
C32_Witness ==
    /\ match_out.start_done /\ match_out.generic_done
    /\ match_out.start # <<>> /\ match_out.generic # <<>>
    /\ StartTried # Combinations /\ GenericTried # Combinations
    /\ \E j \in StartTried :
         /\ j > match_out.start[1].loc
         /\ max_val(match_in, j) = match_out.start[1].confidence
    /\ \E j \in GenericTried :
         /\ j > match_out.generic[1].loc
         /\ max_val(match_in, j) = match_out.generic[1].confidence

-----------------------------------------------------------------------------
(* The shape check                                                          *)

(* a near-square blob within the size band: its area lies between the      *)
(* squares of 15 and 50 per cent of the patch extent and its width is      *)
(* between half and twice its height                                        *)
BandSquares ==
    { i \in DOMAIN shape_in.contours :
        LET b == shape_in.contours[i]
            extent == Min(shape_in.h, shape_in.w)
            lo == (extent * 15) \div 100
            hi == (extent * 50) \div 100
        IN /\ lo * lo <= b.area /\ b.area <= hi * hi
           /\ b.h <= 2 * b.w /\ b.w <= 2 * b.h }

-----------------------------------------------------------------------------
(* Cancellation                                                             *)

(* the positions of a call of execute_task that has been entered and has   *)
(* not returned                                                             *)
TaskRunning == pc \in {"startup", "step", "request", "stream", "process"}

(* C34: a cancel_operation call made while execute_task runs, start-up     *)
(* included, is not lost: after the task's next move the flag is still     *)
(* raised or the task has ended as Cancelled.                               *)
C34_CancelNeverLost ==
    [][(TaskRunning /\ last_op = "cancel_operation" /\ cancel_requested) =>
         \/ cancel_requested'
         \/ (pc' = "done" /\ outcome' = "cancelled")]_vars

-----------------------------------------------------------------------------
(* The step-limit result                                                    *)

(* C35: the step-limit result (success = true with the message that        *)
(* execution stopped after max_steps steps) is returned only when          *)
(* max_steps iterations were carried out; a task that left the loop        *)
(* earlier does not return it.                                              *)
C35_StepLimitOnlyAfterMaxSteps ==
    (/\ pc = "done"
     /\ result.success
     /\ result.message = "Task execution stopped after 15 steps")
        => (step = max_steps /\ outcome = "step_limit")

-----------------------------------------------------------------------------
(* A call without a model                                                   *)

(* C36: execute_task called while no model is selected returns a failure   *)
(* result and changes nothing: permissions, cancel flag, action log and    *)
(* cached detections are unchanged, the overlay is not started, and no     *)
(* capture, inference call, unload or screenshot pruning is made.          *)
C36_NoModelChangesNothing ==
    [][(pc = "idle" /\ current_model = NO_MODEL /\ last_op' = "execute_task") =>
         /\ result' = NoModelResult
         /\ ~result'.success
         /\ result'.error = "No model selected"
         /\ pc' = "idle"
         /\ UNCHANGED <<permissions, cancel_requested, action_history,
                        detected_elements, overlay, screenshots, current_model>>
         /\ UNCHANGED <<step_ops, os_calls, cleanup>>]_vars

(* the call was refused while the cancel flag was raised and a capability  *)
(* was revoked                                                              *)
C36_Witness ==
    /\ pc = "idle"
    /\ last_op = "execute_task"
    /\ outcome = "no_model"
    /\ result = NoModelResult
    /\ current_model = NO_MODEL
    /\ cancel_requested
    /\ permissions # InitialPermissions

-----------------------------------------------------------------------------
(* Termination                                                              *)

(* C37: when every capture, inference request and OS action returns, a     *)
(* call of execute_task that has been entered returns a result, and it     *)
(* carries out at most max_steps step iterations whatever the replies are. *)
C37_Terminates ==
    /\ [](step <= max_steps)
    /\ [](pc \in {"request", "stream", "process"} => step < max_steps)
    /\ (TaskRunning ~> (pc = "done" /\ result # NoResult))

(* while the call runs, the steps that advance its position are exactly    *)
(* the moves of execute_task                                                *)
TaskAdvanceIsTaskMove ==
    [][TaskRunning => (TaskAdvance <=> last_op' = "execute_task")]_vars

(* a task whose replies never ended it returned after max_steps iterations *)
C37_Witness ==
    /\ pc = "done"
    /\ step = max_steps
    /\ Len(task_context) = max_steps
    /\ result = AfterLoopResult(steps_completed)

-----------------------------------------------------------------------------
(* Manual mode                                                              *)

(* the step returns the plan for confirmation and leaves the count of      *)
(* completed steps and the action log as they were                          *)
StepReturnsPlan ==
    /\ pc' = "done"
    /\ outcome' = "manual"
    /\ result' = ManualResult
    /\ result'.success
    /\ result'.requires_confirmation
    /\ steps_completed' = steps_completed
    /\ action_history' = action_history

(* a call with auto_execute false makes no executor, detector or OS call *)
ManualNeverActs ==
    (pc \in {"startup", "step", "request", "stream", "process"} /\ ~auto_execute)
       => /\ step_ops'.exec = 0
          /\ step_ops'.detect = 0
          /\ os_calls' = os_calls
          /\ action_history' = action_history
          /\ steps_completed' = steps_completed

====
